---- MODULE Spec2Model ----
(***************************************************************************)
(* Model of the cryptographic transform core of the built-in security      *)
(* plugin (dds/DCPS/security/CryptoBuiltInImpl.cpp): the key registry, the *)
(* AES-GCM/GMAC session engine, the token codec and the sender key lookup. *)
(*                                                                         *)
(* Octet arrays are sequences of integers 0..255 of their real width.      *)
(* RAND_bytes is a nondeterministic choice from a small set of octet       *)
(* arrays.  HMAC-SHA256 and AES-256-GCM are symbolic: the result of a      *)
(* primitive is the term built from its inputs, so two results are equal   *)
(* exactly when the inputs are equal.                                      *)
(***************************************************************************)
EXTENDS Integers, Sequences, FiniteSets, TLC

VARIABLES
  \* ---- registry (CryptoBuiltInImpl members)
  next_handle_,            \* int next_handle_
  keys_,                   \* std::map<NativeCryptoHandle, KeySeq>
  participant_to_entity_,  \* std::multimap<ParticipantCryptoHandle, EntityInfo>
  encrypt_options_,        \* std::map<NativeCryptoHandle, EncryptOpts>
  sessions_,               \* std::map<KeyId_t, Session>
  ret,                     \* what the last registry operation did and returned, and
                           \* the registry it was called on
  issuedAs,                \* the callers' record: which call returned each handle
  \* ---- session engine, sender and receiver of one (handle, key index)
  master,                  \* the KeyMaterial both ends hold
  sess,                    \* the sender's Session
  rsess,                   \* the receiver's Session
  wire,                    \* the messages encoded so far, in order
  res,                     \* what the last engine operation did and returned
  \* ---- threads of the concurrent registration specification
  mutex_,                  \* ACE_Thread_Mutex mutex_: 0 when free, else the holder
  pc,                      \* each thread's position
  loc,                     \* each thread's locals
  issued,                  \* every handle value generate_handle has returned
  \* ---- token codec
  codec,                   \* the key list, its tokens and the keys parsed back
  \* ---- a second instance of CryptoBuiltInImpl, the peer of the first
  peer,                    \* the peer's registry
  inflight                 \* what the peer's last encode call was given and put out

regVars  == <<next_handle_, keys_, participant_to_entity_, encrypt_options_, sessions_, ret,
              issuedAs>>
engVars  == <<master, sess, rsess, wire, res>>
concVars == <<mutex_, pc, loc, issued>>
pairVars == <<peer, inflight>>
vars     == <<next_handle_, keys_, participant_to_entity_, encrypt_options_, sessions_, ret,
              issuedAs, master, sess, rsess, wire, res, mutex_, pc, loc, issued, codec,
              peer, inflight>>

----------------------------------------------------------------------------
(* Program constants *)

KEY_LEN_BYTES == 32
BLOCK_LEN_BYTES == 16
MAX_BLOCKS_PER_SESSION == 1024
HANDLE_NIL == 0

\* CryptoTransformKind values (last octet of transformation_kind)
CRYPTO_TRANSFORMATION_KIND_NONE == 0
CRYPTO_TRANSFORMATION_KIND_AES128_GMAC == 1
CRYPTO_TRANSFORMATION_KIND_AES128_GCM == 2
CRYPTO_TRANSFORMATION_KIND_AES256_GMAC == 3
CRYPTO_TRANSFORMATION_KIND_AES256_GCM == 4
\* index of the algorithm octet in transformation_kind (0-based in the code)
TransformKindIndex == 3
\* the two vendor octets of the volatile placeholder (DCPS::VENDORID_OCI)
VENDOR_A == 1
VENDOR_B == 3

----------------------------------------------------------------------------
(* Octet arrays *)

Fill(n, b) == [i \in 1..n |-> b]

\* Octet i (0-based) of the unsigned value v: v >> (8 * i), truncated to 8 bits
OctetOf(v, i) == (v \div (256 ^ i)) % 256

\* RAND_bytes(buf, 4): the outcomes the model draws for a session id.  The
\* set holds an id whose first octet is 0xff and the all-ones id.
RandIds == { <<7, 0, 0, 0>>, <<255, 0, 0, 0>>, <<255, 255, 255, 255>> }

\* RAND_bytes(buf, 8): the outcomes the model draws for an iv suffix
RandIvs == { <<255, 2, 0, 0, 0, 0, 0, 0>>, <<255, 255, 255, 255, 5, 0, 0, 0>> }

\* RAND_bytes(buf, KEY_LEN_BYTES): the outcomes the model draws for a master
\* salt or a master key
RandKeys == { Fill(KEY_LEN_BYTES, 17), Fill(KEY_LEN_BYTES, 165) }

----------------------------------------------------------------------------
(* Key material *)

KeyMaterial(kind, salt, id, key) ==
  [ transformation_kind |-> kind, master_salt |-> salt, sender_key_id |-> id,
    master_sender_key |-> key, receiver_specific_key_id |-> <<0, 0, 0, 0>>,
    master_receiver_specific_key |-> <<>> ]

\* make_key writing the key id with the most significant octet first
make_key_BigEndianId(key_id, encrypt, rsalt, rkey) ==
  KeyMaterial(
    <<0, 0, 0, IF encrypt THEN CRYPTO_TRANSFORMATION_KIND_AES256_GCM
                          ELSE CRYPTO_TRANSFORMATION_KIND_AES256_GMAC>>,
    rsalt,
    [i \in 1..4 |-> OctetOf(key_id, 4 - i)],
    rkey)

make_key(key_id, encrypt, rsalt, rkey) ==
  KeyMaterial(
    <<0, 0, 0, IF encrypt THEN CRYPTO_TRANSFORMATION_KIND_AES256_GCM
                          ELSE CRYPTO_TRANSFORMATION_KIND_AES256_GMAC>>,
    rsalt,
    [i \in 1..4 |-> OctetOf(key_id, i - 1)],
    rkey)

is_volatile_placeholder(keymat) ==
  keymat.transformation_kind = <<VENDOR_A, VENDOR_B, 0, 1>>

make_volatile_placeholder ==
  KeyMaterial(<<VENDOR_A, VENDOR_B, 0, 1>>, <<>>, <<0, 0, 0, 0>>, <<>>)

encrypts(k) ==
  LET kind == k.transformation_kind
  IN  /\ kind[1] = 0 /\ kind[2] = 0 /\ kind[3] = 0
      /\ \/ kind[TransformKindIndex + 1] = CRYPTO_TRANSFORMATION_KIND_AES128_GCM
         \/ kind[TransformKindIndex + 1] = CRYPTO_TRANSFORMATION_KIND_AES256_GCM

authenticates(k) ==
  LET kind == k.transformation_kind
  IN  /\ kind[1] = 0 /\ kind[2] = 0 /\ kind[3] = 0
      /\ \/ kind[TransformKindIndex + 1] = CRYPTO_TRANSFORMATION_KIND_AES128_GMAC
         \/ kind[TransformKindIndex + 1] = CRYPTO_TRANSFORMATION_KIND_AES256_GMAC

matches(k, h) ==
  /\ k.transformation_kind = h.transformation_kind
  /\ k.sender_key_id = h.transformation_key_id

----------------------------------------------------------------------------
(* Session engine *)

\* Session(): no key, zero counter
NewSession ==
  [ id_ |-> <<0, 0, 0, 0>>, iv_suffix_ |-> Fill(8, 0), counter_ |-> 0, key_ |-> <<>> ]

inc32(a) ==
  IF \E i \in 1..4 : a[i] # 255
  THEN LET i == CHOOSE n \in 1..4 : a[n] # 255 /\ \A j \in 1..(n - 1) : a[j] = 255
       IN  [ a |-> [a EXCEPT ![i] = a[i] + 1], carry |-> FALSE ]
  ELSE [ a |-> <<0, 0, 0, 0>>, carry |-> TRUE ]

\* HMAC-SHA256 keyed by master_sender_key over "SessionKey" || master_salt || id_
derive_key(m, id) ==
  << "HMAC-SHA256", m.master_sender_key, "SessionKey", m.master_salt, id >>

create_key(s, m, rid, riv) ==
  [ id_ |-> rid, iv_suffix_ |-> riv, counter_ |-> 0, key_ |-> derive_key(m, rid) ]

next_id(s, m, riv) ==
  LET id == inc32(s.id_).a
  IN  [ id_ |-> id, iv_suffix_ |-> riv, counter_ |-> 0, key_ |-> derive_key(m, id) ]

inc_iv(s) ==
  LET lo == inc32(SubSeq(s.iv_suffix_, 1, 4))
      hi == SubSeq(s.iv_suffix_, 5, 8)
  IN  [ s EXCEPT !.iv_suffix_ = lo.a \o (IF lo.carry THEN inc32(hi).a ELSE hi) ]

Blocks(len) == (len + BLOCK_LEN_BYTES - 1) \div BLOCK_LEN_BYTES

\* The three branches of encauth_setup
SetupBranch(s, plain) ==
  IF s.key_ = <<>> THEN "create"
  ELSE IF s.counter_ + Blocks(plain.len) > MAX_BLOCKS_PER_SESSION THEN "rotate"
  ELSE "advance"

\* the session as encauth_setup leaves it: created, rotated, or advanced
SessionAfter(m, s, plain, rid, riv) ==
  CASE SetupBranch(s, plain) = "create" -> create_key(s, m, rid, riv)
    [] SetupBranch(s, plain) = "rotate" -> next_id(s, m, riv)
    [] OTHER -> [ inc_iv(s) EXCEPT !.counter_ = s.counter_ + Blocks(plain.len) ]

\* the header copied from the key and the session
HeaderOf(kind, key_id, s2) ==
  [ transformation_kind |-> kind,
    transformation_key_id |-> key_id,
    session_id |-> s2.id_,
    initialization_vector_suffix |-> s2.iv_suffix_ ]

SetupOf(s2, header) == [ sess |-> s2, header |-> header ]

\* encauth_setup copying receiver_specific_key_id into the header
encauth_setup_ReceiverKeyId(m, s, plain, rid, riv) ==
  SetupOf(SessionAfter(m, s, plain, rid, riv),
          HeaderOf(m.transformation_kind, m.receiver_specific_key_id,
                   SessionAfter(m, s, plain, rid, riv)))

encauth_setup(m, s, plain, rid, riv) ==
  SetupOf(SessionAfter(m, s, plain, rid, riv),
          HeaderOf(m.transformation_kind, m.sender_key_id,
                   SessionAfter(m, s, plain, rid, riv)))

\* get_key copying the iv suffix of the header along with its session id
get_key_TakesHeaderIv(s, m, header) ==
  IF s.key_ # <<>> /\ s.id_ = header.session_id
  THEN s
  ELSE [ s EXCEPT !.id_ = header.session_id,
                  !.iv_suffix_ = header.initialization_vector_suffix,
                  !.key_ = derive_key(m, header.session_id) ]

\* get_key without the comparison of the cached id with header.session_id
get_key_IgnoresSessionId(s, m, header) ==
  IF s.key_ # <<>>
  THEN s
  ELSE [ s EXCEPT !.id_ = header.session_id, !.key_ = derive_key(m, header.session_id) ]

get_key(s, m, header) ==
  IF s.key_ # <<>> /\ s.id_ = header.session_id
  THEN s
  ELSE [ s EXCEPT !.id_ = header.session_id, !.key_ = derive_key(m, header.session_id) ]

----------------------------------------------------------------------------
(* AEAD transform (AES-256-GCM through EVP) *)

\* the 12-octet IV: session id, then iv suffix
IvOf(id, suffix) == id \o suffix

\* EVP_EncryptUpdate/Final: the ciphertext of `plain` under (key, iv); it is
\* as long as the plaintext
GcmCipher(key, iv, plain) ==
  [ len |-> plain.len, body |-> << "AES-GCM", key, iv, plain >> ]

\* EVP_CTRL_AEAD_GET_TAG: the 16-octet tag over the additional data and the
\* ciphertext
GcmTag(key, iv, aad, ct) == << "TAG", key, iv, aad, ct >>

\* EVP_DecryptUpdate: the plaintext of a ciphertext under (key, iv)
GcmPlain(key, iv, ct) ==
  IF ct.body[2] = key /\ ct.body[3] = iv THEN ct.body[4]
  ELSE [ len |-> ct.len, body |-> << "garbage", key, iv, ct >> ]

NoData == [ len |-> 0, body |-> <<>> ]

\* the 12-octet IV of a session, and of a header
SessionIv(s) == IvOf(s.id_, s.iv_suffix_)
HeaderIv(header) == IvOf(header.session_id, header.initialization_vector_suffix)

Footer(tag) == [ common_mac |-> tag ]

EncryptOut(st, ct) ==
  [ ok |-> TRUE, sess |-> st.sess, header |-> st.header, out |-> ct,
    footer |-> Footer(GcmTag(st.sess.key_, SessionIv(st.sess), NoData, ct)) ]

EncryptWith(st, plain) == EncryptOut(st, GcmCipher(st.sess.key_, SessionIv(st.sess), plain))

encrypt(m, s, plain, rid, riv) == EncryptWith(encauth_setup(m, s, plain, rid, riv), plain)

AuthtagWith(st, plain) ==
  [ ok |-> TRUE, sess |-> st.sess, header |-> st.header, out |-> plain,
    footer |-> Footer(GcmTag(st.sess.key_, SessionIv(st.sess), plain, NoData)) ]

authtag(m, s, plain, rid, riv) == AuthtagWith(encauth_setup(m, s, plain, rid, riv), plain)

DecodeFailed(s2, err) == [ ok |-> FALSE, sess |-> s2, out |-> NoData, err |-> err ]
Decoded(s2, out) == [ ok |-> TRUE, sess |-> s2, out |-> out, err |-> "" ]

\* decrypt, once get_key has set the session
DecryptWith(m, s2, ct, header, footer) ==
  IF s2.key_ = <<>> THEN DecodeFailed(s2, "no session key")
  ELSE IF m.transformation_kind[TransformKindIndex + 1] # CRYPTO_TRANSFORMATION_KIND_AES256_GCM
  THEN DecodeFailed(s2, "unsupported transformation kind")
  ELSE IF footer.common_mac = GcmTag(s2.key_, HeaderIv(header), NoData, ct)
  THEN Decoded(s2, GcmPlain(s2.key_, HeaderIv(header), ct))
  ELSE DecodeFailed(s2, "EVP_DecryptFinal_ex")

decrypt(m, s, ct, header, footer) == DecryptWith(m, get_key(s, m, header), ct, header, footer)

\* verify, once get_key has set the session
VerifyWith(m, s2, in, header, footer) ==
  IF s2.key_ = <<>> THEN DecodeFailed(s2, "no session key")
  ELSE IF m.transformation_kind[TransformKindIndex + 1] # CRYPTO_TRANSFORMATION_KIND_AES256_GMAC
  THEN DecodeFailed(s2, "unsupported transformation kind")
  ELSE IF footer.common_mac = GcmTag(s2.key_, HeaderIv(header), in, NoData)
  THEN Decoded(s2, in)
  ELSE DecodeFailed(s2, "EVP_DecryptFinal_ex")

\* verify, once get_key has set the session, without the check of
\* EVP_DecryptFinal_ex's result
VerifyWith_IgnoresFinal(m, s2, in, header, footer) ==
  IF s2.key_ = <<>> THEN DecodeFailed(s2, "no session key")
  ELSE IF m.transformation_kind[TransformKindIndex + 1] # CRYPTO_TRANSFORMATION_KIND_AES256_GMAC
  THEN DecodeFailed(s2, "unsupported transformation kind")
  ELSE Decoded(s2, in)

\* verify without the check of EVP_DecryptFinal_ex's result
verify_IgnoresFinal(m, s, in, header, footer) ==
  VerifyWith_IgnoresFinal(m, get_key(s, m, header), in, header, footer)

verify(m, s, in, header, footer) == VerifyWith(m, get_key(s, m, header), in, header, footer)

----------------------------------------------------------------------------
(* Token codec *)

Crypto_Token_Class_Id == "DDS:Crypto:AES_GCM_GMAC"
Token_KeyMat_Name == "dds.cryp.keymat"

\* a 32-bit unsigned value as four octets, most significant first
BE32(n) == << (n \div 16777216) % 256, (n \div 65536) % 256, (n \div 256) % 256, n % 256 >>
UnBE32(b) == b[1] * 16777216 + b[2] * 65536 + b[3] * 256 + b[4]

\* octets of padding that align the position `pos` to 4
AlignPad(pos) == (4 - (pos % 4)) % 4

\* Serializer << sequence<octet>: the length, aligned to 4, then the octets
CdrOctetSeq(buf, seq) == buf \o Fill(AlignPad(Len(buf)), 0) \o BE32(Len(seq)) \o seq

\* Serializer << KeyMaterial_AES_GCM_GMAC (SWAP_BE, ALIGN_CDR), field by field
CdrKeyMaterial(k) ==
  LET b1 == CdrOctetSeq(k.transformation_kind, k.master_salt)
      b2 == CdrOctetSeq(b1 \o k.sender_key_id, k.master_sender_key)
  IN  CdrOctetSeq(b2 \o k.receiver_specific_key_id, k.master_receiver_specific_key)

\* gen_find_size(key, size, padding): the octets of the fields, and the
\* octets of alignment between them
gen_find_size(k) ==
  LET size == 4 + 4 + Len(k.master_salt) + 4 + 4 + Len(k.master_sender_key)
                + 4 + 4 + Len(k.master_receiver_specific_key)
  IN  [ size |-> size, padding |-> Len(CdrKeyMaterial(k)) - size ]

\* ser << key into a message block of `cap` octets: fails when it does not fit
SerializeKey(cap, k) ==
  LET bytes == CdrKeyMaterial(k)
  IN  IF Len(bytes) <= cap
      THEN [ ok |-> TRUE, value |-> bytes \o Fill(cap - Len(bytes), 0) ]
      ELSE [ ok |-> FALSE, value |-> Fill(cap, 0) ]

\* Serializer >> sequence<octet> at position pos (octets already read)
ReadOctetSeq(buf, pos) ==
  LET at == pos + AlignPad(pos)
  IN  IF at + 4 > Len(buf) THEN [ ok |-> FALSE, seq |-> << >>, pos |-> at ]
      ELSE LET n == UnBE32(SubSeq(buf, at + 1, at + 4))
           IN  IF at + 4 + n > Len(buf) THEN [ ok |-> FALSE, seq |-> << >>, pos |-> at + 4 ]
               ELSE [ ok |-> TRUE, seq |-> SubSeq(buf, at + 5, at + 4 + n), pos |-> at + 4 + n ]

\* Serializer >> octet[4] at position pos
ReadOctet4(buf, pos) ==
  IF pos + 4 > Len(buf) THEN [ ok |-> FALSE, arr |-> <<0, 0, 0, 0>>, pos |-> pos ]
  ELSE [ ok |-> TRUE, arr |-> SubSeq(buf, pos + 1, pos + 4), pos |-> pos + 4 ]

\* ser >> key
DeserializeKey(buf) ==
  LET kind == ReadOctet4(buf, 0)
      salt == ReadOctetSeq(buf, kind.pos)
      kid  == ReadOctet4(buf, salt.pos)
      key  == ReadOctetSeq(buf, kid.pos)
      rid  == ReadOctet4(buf, key.pos)
      rkey == ReadOctetSeq(buf, rid.pos)
  IN  [ ok |-> kind.ok /\ salt.ok /\ kid.ok /\ key.ok /\ rid.ok /\ rkey.ok,
        key |-> [ transformation_kind |-> kind.arr, master_salt |-> salt.seq,
                  sender_key_id |-> kid.arr, master_sender_key |-> key.seq,
                  receiver_specific_key_id |-> rid.arr,
                  master_receiver_specific_key |-> rkey.seq ] ]

\* keys_to_tokens sizing the buffer without the padding
KeyToken_NoPadding(k) ==
  LET fs == gen_find_size(k)
  IN  SerializeKey(fs.size, k)

\* one key's token: the buffer is sized size + padding
KeyToken(k) ==
  LET fs == gen_find_size(k)
  IN  SerializeKey(fs.size + fs.padding, k)

TokenOf(value) ==
  [ class_id |-> Crypto_Token_Class_Id,
    binary_properties |-> << [ name |-> Token_KeyMat_Name, value |-> value, propagate |-> TRUE ] >> ]

RECURSIVE keys_to_tokens(_)
keys_to_tokens(keys) ==
  IF keys = << >> THEN << >>
  ELSE LET t == KeyToken(Head(keys))
       IN  (IF t.ok THEN << TokenOf(t.value) >> ELSE << >>) \o keys_to_tokens(Tail(keys))

\* the keys of one token: of the first property named dds.cryp.keymat, when
\* the class id is ours and the property parses
TokenKeys(t) ==
  IF Crypto_Token_Class_Id # t.class_id THEN << >>
  ELSE LET named == { j \in 1..Len(t.binary_properties) :
                        Token_KeyMat_Name = t.binary_properties[j].name }
       IN  IF named = {} THEN << >>
           ELSE LET j == CHOOSE n \in named : \A o \in named : n <= o
                    d == DeserializeKey(t.binary_properties[j].value)
                IN  IF d.ok THEN << d.key >> ELSE << >>

RECURSIVE tokens_to_keys(_)
tokens_to_keys(tokens) ==
  IF tokens = << >> THEN << >>
  ELSE TokenKeys(Head(tokens)) \o tokens_to_keys(Tail(tokens))

----------------------------------------------------------------------------
(* Key registry: containers *)

\* std::map
EmptyMap == [ x \in {} |-> 0 ]
Has(m, k) == k \in DOMAIN m
Put(m, k, v) == [ x \in (DOMAIN m) \cup {k} |-> IF x = k THEN v ELSE m[x] ]
Erase(m, k) == [ x \in (DOMAIN m) \ {k} |-> m[x] ]
\* std::map::operator[]: an absent key is inserted with a value-initialized value
Touch(m, k, dflt) == IF k \in DOMAIN m THEN m ELSE Put(m, k, dflt)

DATAWRITER_SUBMESSAGE == "DATAWRITER_SUBMESSAGE"
DATAREADER_SUBMESSAGE == "DATAREADER_SUBMESSAGE"
INFO_SUBMESSAGE == "INFO_SUBMESSAGE"

EntityInfo(category, handle) == [ category_ |-> category, handle_ |-> handle ]

\* std::multimap::insert: ordered by participant, after the equal participants
MultiInsert(p2e, p, e) ==
  LET n == Cardinality({ i \in 1..Len(p2e) : p2e[i].participant <= p })
  IN  SubSeq(p2e, 1, n) \o << [ participant |-> p, entity |-> e ] >>
        \o SubSeq(p2e, n + 1, Len(p2e))

\* std::multimap::equal_range
EqualRange(p2e, p) == SelectSeq(p2e, LAMBDA x : x.participant = p)

DefaultEncryptOpts == [ submessage_ |-> FALSE, payload_ |-> FALSE ]
EncryptOpts(attrs) ==
  [ submessage_ |-> attrs.is_submessage_protected, payload_ |-> attrs.is_payload_protected ]

FLAG_IS_SUBMESSAGE_ENCRYPTED == 1
FLAG_IS_PAYLOAD_ENCRYPTED == 2
HasFlag(mask, flag) == (mask \div flag) % 2 = 1

NoError == [ code |-> 0, minor_code |-> 0, message |-> "" ]
set_security_error(code, minor, msg) == [ code |-> code, minor_code |-> minor, message |-> msg ]

\* the registry as one value: the five members of CryptoBuiltInImpl
Registry ==
  [ next |-> next_handle_, keys |-> keys_, p2e |-> participant_to_entity_,
    opts |-> encrypt_options_, sess |-> sessions_ ]

\* CommonUtilities::increment_handle: the current value, and the counter advanced
increment_handle(next) == [ h |-> next, next |-> next + 1 ]

generate_handle(next) == increment_handle(next)

----------------------------------------------------------------------------
(* Key registry: registration *)

\* a failed call: the registry as the call left it, HANDLE_NIL, the exception
Failed(g, msg) ==
  [ g |-> g, handle |-> HANDLE_NIL, ex |-> set_security_error(-1, 0, msg) ]

\* register_local_participant without the check of the permissions handle
register_local_participant_IgnoresPermissions(g, participant_identity, participant_permissions, is_rtps_protected) ==
  IF participant_identity = HANDLE_NIL THEN Failed(g, "Invalid local participant ID")
  ELSE IF is_rtps_protected THEN Failed(g, "RTPS protection is unsupported")
  ELSE LET gh == generate_handle(g.next)
       IN  [ g |-> [ g EXCEPT !.next = gh.next ], handle |-> gh.h, ex |-> NoError ]

register_local_participant(g, participant_identity, participant_permissions, is_rtps_protected) ==
  IF participant_identity = HANDLE_NIL THEN Failed(g, "Invalid local participant ID")
  ELSE IF participant_permissions = HANDLE_NIL THEN Failed(g, "Invalid local permissions")
  ELSE IF is_rtps_protected THEN Failed(g, "RTPS protection is unsupported")
  ELSE LET gh == generate_handle(g.next)
       IN  [ g |-> [ g EXCEPT !.next = gh.next ], handle |-> gh.h, ex |-> NoError ]

register_matched_remote_participant(g, local_participant_crypto_handle, remote_participant_identity, remote_participant_permissions, shared_secret) ==
  IF local_participant_crypto_handle = HANDLE_NIL
  THEN Failed(g, "Invalid local participant crypto handle")
  ELSE IF remote_participant_identity = HANDLE_NIL
  THEN Failed(g, "Invalid remote participant ID")
  ELSE IF remote_participant_permissions = HANDLE_NIL
  THEN Failed(g, "Invalid remote participant permissions")
  ELSE IF shared_secret.null THEN Failed(g, "Invalid Shared Secret data")
  ELSE LET gh == generate_handle(g.next)
       IN  [ g |-> [ g EXCEPT !.next = gh.next ], handle |-> gh.h, ex |-> NoError ]

BuiltinEndpointName == "dds.sec.builtin_endpoint_name"
VolatileWriterName == "BuiltinParticipantVolatileMessageSecureWriter"
VolatileReaderName == "BuiltinParticipantVolatileMessageSecureReader"

\* is_builtin_volatile recognising the writer's endpoint name only
is_builtin_volatile_WriterOnly(props) ==
  LET named == { i \in 1..Len(props) : props[i].name = BuiltinEndpointName }
  IN  /\ named # {}
      /\ LET i == CHOOSE n \in named : \A o \in named : n <= o
         IN  props[i].value = VolatileWriterName

\* decided by the first property named dds.sec.builtin_endpoint_name
is_builtin_volatile(props) ==
  LET named == { i \in 1..Len(props) : props[i].name = BuiltinEndpointName }
  IN  /\ named # {}
      /\ LET i == CHOOSE n \in named : \A o \in named : n <= o
         IN  props[i].value \in { VolatileWriterName, VolatileReaderName }

\* HMAC-SHA256 over data, keyed by SHA-256(prefix || cookie || suffix); the
\* result stays empty when a digest call fails
hkdf(prefix, cookie, suffix, data, digest_ok) ==
  IF digest_ok
  THEN << "HMAC-SHA256", << "SHA256", prefix, cookie, suffix >>, data >>
  ELSE << >>

make_volatile_key(challenge1, challenge2, sharedSec, digest_ok) ==
  [ transformation_kind |-> <<0, 0, 0, CRYPTO_TRANSFORMATION_KIND_AES256_GCM>>,
    master_salt |-> hkdf(challenge1, "keyexchange salt", challenge2, sharedSec, digest_ok),
    sender_key_id |-> <<0, 0, 0, 0>>,
    master_sender_key |-> hkdf(challenge2, "key exchange key", challenge1, sharedSec, digest_ok),
    receiver_specific_key_id |-> <<0, 0, 0, 0>>,
    master_receiver_specific_key |-> << >> ]

\* register_local_datawriter giving the payload key the id of the submessage key
register_local_datawriter_ReusesH(g, participant_crypto, properties, security_attributes, rnd) ==
  IF participant_crypto = HANDLE_NIL THEN Failed(g, "Invalid Participant Crypto Handle")
  ELSE LET gh == generate_handle(g.next)
           h == gh.h
           mask == security_attributes.plugin_endpoint_attributes
           sub == IF security_attributes.is_submessage_protected
                  THEN << make_key(h, HasFlag(mask, FLAG_IS_SUBMESSAGE_ENCRYPTED),
                                   rnd.salt1, rnd.key1) >>
                  ELSE << >>
           pay == IF security_attributes.is_payload_protected
                  THEN << make_key(h, HasFlag(mask, FLAG_IS_PAYLOAD_ENCRYPTED),
                                   rnd.salt2, rnd.key2) >>
                  ELSE << >>
           keys == IF is_builtin_volatile(properties) THEN << make_volatile_placeholder >>
                   ELSE sub \o pay
       IN  [ g |-> [ g EXCEPT !.next = gh.next,
                              !.keys = Put(@, h, keys),
                              !.p2e = MultiInsert(@, participant_crypto,
                                                  EntityInfo(DATAWRITER_SUBMESSAGE, h)),
                              !.opts = Put(@, h, EncryptOpts(security_attributes)) ],
             handle |-> h, ex |-> NoError ]

register_local_datawriter(g, participant_crypto, properties, security_attributes, rnd) ==
  IF participant_crypto = HANDLE_NIL THEN Failed(g, "Invalid Participant Crypto Handle")
  ELSE LET gh == generate_handle(g.next)
           h == gh.h
           mask == security_attributes.plugin_endpoint_attributes
           volatile == is_builtin_volatile(properties)
           used_h == security_attributes.is_submessage_protected
           sub == IF security_attributes.is_submessage_protected
                  THEN << make_key(h, HasFlag(mask, FLAG_IS_SUBMESSAGE_ENCRYPTED),
                                   rnd.salt1, rnd.key1) >>
                  ELSE << >>
           gh2 == IF ~volatile /\ security_attributes.is_payload_protected /\ used_h
                  THEN generate_handle(gh.next)
                  ELSE [ h |-> h, next |-> gh.next ]
           pay == IF security_attributes.is_payload_protected
                  THEN << make_key(gh2.h, HasFlag(mask, FLAG_IS_PAYLOAD_ENCRYPTED),
                                   rnd.salt2, rnd.key2) >>
                  ELSE << >>
           keys == IF volatile THEN << make_volatile_placeholder >> ELSE sub \o pay
       IN  [ g |-> [ g EXCEPT !.next = gh2.next,
                              !.keys = Put(@, h, keys),
                              !.p2e = MultiInsert(@, participant_crypto,
                                                  EntityInfo(DATAWRITER_SUBMESSAGE, h)),
                              !.opts = Put(@, h, EncryptOpts(security_attributes)) ],
             handle |-> h, ex |-> NoError ]

\* register_local_datareader generating a payload key as well
register_local_datareader_PayloadKey(g, participant_crypto, properties, security_attributes, rnd) ==
  IF participant_crypto = HANDLE_NIL THEN Failed(g, "Invalid Participant Crypto Handle")
  ELSE LET gh == generate_handle(g.next)
           h == gh.h
           mask == security_attributes.plugin_endpoint_attributes
           keys == IF is_builtin_volatile(properties) THEN << make_volatile_placeholder >>
                   ELSE (IF security_attributes.is_submessage_protected
                         THEN << make_key(h, HasFlag(mask, FLAG_IS_SUBMESSAGE_ENCRYPTED),
                                          rnd.salt1, rnd.key1) >>
                         ELSE << >>)
                        \o (IF security_attributes.is_payload_protected
                            THEN << make_key(h, HasFlag(mask, FLAG_IS_PAYLOAD_ENCRYPTED),
                                             rnd.salt2, rnd.key2) >>
                            ELSE << >>)
       IN  [ g |-> [ g EXCEPT !.next = gh.next,
                              !.keys = Put(@, h, keys),
                              !.p2e = MultiInsert(@, participant_crypto,
                                                  EntityInfo(DATAREADER_SUBMESSAGE, h)),
                              !.opts = Put(@, h, EncryptOpts(security_attributes)) ],
             handle |-> h, ex |-> NoError ]

\* register_local_datareader choosing the algorithm by FLAG_IS_PAYLOAD_ENCRYPTED
register_local_datareader_PayloadFlag(g, participant_crypto, properties, security_attributes, rnd) ==
  IF participant_crypto = HANDLE_NIL THEN Failed(g, "Invalid Participant Crypto Handle")
  ELSE LET gh == generate_handle(g.next)
           h == gh.h
           mask == security_attributes.plugin_endpoint_attributes
           keys == IF is_builtin_volatile(properties) THEN << make_volatile_placeholder >>
                   ELSE IF security_attributes.is_submessage_protected
                   THEN << make_key(h, HasFlag(mask, FLAG_IS_PAYLOAD_ENCRYPTED),
                                    rnd.salt1, rnd.key1) >>
                   ELSE << >>
       IN  [ g |-> [ g EXCEPT !.next = gh.next,
                              !.keys = Put(@, h, keys),
                              !.p2e = MultiInsert(@, participant_crypto,
                                                  EntityInfo(DATAREADER_SUBMESSAGE, h)),
                              !.opts = Put(@, h, EncryptOpts(security_attributes)) ],
             handle |-> h, ex |-> NoError ]

register_local_datareader(g, participant_crypto, properties, security_attributes, rnd) ==
  IF participant_crypto = HANDLE_NIL THEN Failed(g, "Invalid Participant Crypto Handle")
  ELSE LET gh == generate_handle(g.next)
           h == gh.h
           mask == security_attributes.plugin_endpoint_attributes
           keys == IF is_builtin_volatile(properties) THEN << make_volatile_placeholder >>
                   ELSE IF security_attributes.is_submessage_protected
                   THEN << make_key(h, HasFlag(mask, FLAG_IS_SUBMESSAGE_ENCRYPTED),
                                    rnd.salt1, rnd.key1) >>
                   ELSE << >>
       IN  [ g |-> [ g EXCEPT !.next = gh.next,
                              !.keys = Put(@, h, keys),
                              !.p2e = MultiInsert(@, participant_crypto,
                                                  EntityInfo(DATAREADER_SUBMESSAGE, h)),
                              !.opts = Put(@, h, EncryptOpts(security_attributes)) ],
             handle |-> h, ex |-> NoError ]

\* register_matched_remote recording the entity before the volatile key is checked
register_matched_remote_StoresBeforeCheck(g, local, remote_participant_crypto, shared_secret, digest_ok, category, invalidLocal, noVolatileKey) ==
  IF local = HANDLE_NIL THEN Failed(g, invalidLocal)
  ELSE IF remote_participant_crypto = HANDLE_NIL
  THEN Failed(g, "Invalid Remote Participant Crypto Handle")
  ELSE IF shared_secret.null THEN Failed(g, "Invalid Shared Secret Handle")
  ELSE LET gh == generate_handle(g.next)
           h == gh.h
           g1 == [ g EXCEPT !.next = gh.next ]
       IN  IF ~Has(g.keys, local) THEN Failed(g1, invalidLocal)
           ELSE LET local_keys == g.keys[local]
                    volatile == Len(local_keys) = 1 /\ is_volatile_placeholder(local_keys[1])
                    key == make_volatile_key(shared_secret.challenge1, shared_secret.challenge2,
                                             shared_secret.sharedSecret, digest_ok)
                    opts1 == Touch(g.opts, local, DefaultEncryptOpts)
                    g2 == [ g1 EXCEPT !.p2e = MultiInsert(@, remote_participant_crypto,
                                                          EntityInfo(category, h)) ]
                IN  IF volatile /\ (Len(key.master_salt) = 0 \/ Len(key.master_sender_key) = 0)
                    THEN Failed(g2, noVolatileKey)
                    ELSE [ g |-> [ g2 EXCEPT
                                     !.keys = IF volatile THEN Put(@, h, << key >>) ELSE @,
                                     !.opts = Put(opts1, h, opts1[local]) ],
                           handle |-> h, ex |-> NoError ]

\* the common body of register_matched_remote_datareader and
\* register_matched_remote_datawriter
register_matched_remote(g, local, remote_participant_crypto, shared_secret, digest_ok, category, invalidLocal, noVolatileKey) ==
  IF local = HANDLE_NIL THEN Failed(g, invalidLocal)
  ELSE IF remote_participant_crypto = HANDLE_NIL
  THEN Failed(g, "Invalid Remote Participant Crypto Handle")
  ELSE IF shared_secret.null THEN Failed(g, "Invalid Shared Secret Handle")
  ELSE LET gh == generate_handle(g.next)
           h == gh.h
           g1 == [ g EXCEPT !.next = gh.next ]
       IN  IF ~Has(g.keys, local) THEN Failed(g1, invalidLocal)
           ELSE LET local_keys == g.keys[local]
                    volatile == Len(local_keys) = 1 /\ is_volatile_placeholder(local_keys[1])
                    key == make_volatile_key(shared_secret.challenge1, shared_secret.challenge2,
                                             shared_secret.sharedSecret, digest_ok)
                    opts1 == Touch(g.opts, local, DefaultEncryptOpts)
                IN  IF volatile /\ (Len(key.master_salt) = 0 \/ Len(key.master_sender_key) = 0)
                    THEN Failed(g1, noVolatileKey)
                    ELSE [ g |-> [ g1 EXCEPT
                                     !.keys = IF volatile THEN Put(@, h, << key >>) ELSE @,
                                     !.p2e = MultiInsert(@, remote_participant_crypto,
                                                         EntityInfo(category, h)),
                                     !.opts = Put(opts1, h, opts1[local]) ],
                           handle |-> h, ex |-> NoError ]

register_matched_remote_datareader(g, local_datawriter_crypto_handle, remote_participant_crypto, shared_secret, digest_ok) ==
  register_matched_remote(g, local_datawriter_crypto_handle, remote_participant_crypto,
                          shared_secret, digest_ok, DATAREADER_SUBMESSAGE,
                          "Invalid Local DataWriter Crypto Handle",
                          "Couldn't create key for volatile remote reader")

\* register_matched_remote_datawriter recording the new entity as a reader
register_matched_remote_datawriter_ReaderCategory(g, local_datareader_crypto_handle, remote_participant_crypto, shared_secret, digest_ok) ==
  register_matched_remote(g, local_datareader_crypto_handle, remote_participant_crypto,
                          shared_secret, digest_ok, DATAREADER_SUBMESSAGE,
                          "Invalid Local DataReader Crypto Handle",
                          "Couldn't create key for volatile remote writer")

register_matched_remote_datawriter(g, local_datareader_crypto_handle, remote_participant_crypto, shared_secret, digest_ok) ==
  register_matched_remote(g, local_datareader_crypto_handle, remote_participant_crypto,
                          shared_secret, digest_ok, DATAWRITER_SUBMESSAGE,
                          "Invalid Local DataReader Crypto Handle",
                          "Couldn't create key for volatile remote writer")

----------------------------------------------------------------------------
(* Key registry: unregistration and tokens *)

\* a call that returns bool
Returned(g, ok, ex) == [ g |-> g, ok |-> ok, ex |-> ex ]

unregister_participant(g, handle) ==
  IF handle = HANDLE_NIL
  THEN Returned(g, FALSE, set_security_error(-1, 0, "Invalid Crypto Handle"))
  ELSE Returned(g, TRUE, NoError)

\* clear_endpoint_data without the loop over sessions_
clear_endpoint_data_KeepsSessions(g, handle) ==
  [ g EXCEPT !.keys = Erase(@, handle),
             !.opts = Erase(@, handle),
             !.p2e = SelectSeq(@, LAMBDA x : x.entity.handle_ # handle) ]

clear_endpoint_data(g, handle) ==
  [ g EXCEPT !.keys = Erase(@, handle),
             !.opts = Erase(@, handle),
             !.p2e = SelectSeq(@, LAMBDA x : x.entity.handle_ # handle),
             !.sess = [ k \in { j \in DOMAIN @ : ~(j[1] = handle /\ j[2] >= 0) } |-> @[k] ] ]

unregister_datawriter(g, handle) ==
  IF handle = HANDLE_NIL
  THEN Returned(g, FALSE, set_security_error(-1, 0, "Invalid Crypto Handle"))
  ELSE Returned(clear_endpoint_data(g, handle), TRUE, NoError)

unregister_datareader(g, handle) ==
  IF handle = HANDLE_NIL
  THEN Returned(g, FALSE, set_security_error(-1, 0, "Invalid Crypto Handle"))
  ELSE Returned(clear_endpoint_data(g, handle), TRUE, NoError)

\* what a create_local_*_crypto_tokens call returns: the registry is only read
Tokens(ok, ex, tokens) == [ ok |-> ok, ex |-> ex, tokens |-> tokens ]

create_local_datawriter_crypto_tokens(g, local_datawriter_crypto, remote_datareader_crypto) ==
  IF local_datawriter_crypto = HANDLE_NIL
  THEN Tokens(FALSE, set_security_error(-1, 0, "Invalid local writer handle"), << >>)
  ELSE IF remote_datareader_crypto = HANDLE_NIL
  THEN Tokens(FALSE, set_security_error(-1, 0, "Invalid remote reader handle"), << >>)
  ELSE IF Has(g.keys, local_datawriter_crypto)
  THEN Tokens(TRUE, NoError, keys_to_tokens(g.keys[local_datawriter_crypto]))
  ELSE Tokens(TRUE, NoError, << >>)

create_local_datareader_crypto_tokens(g, local_datareader_crypto, remote_datawriter_crypto) ==
  IF local_datareader_crypto = HANDLE_NIL
  THEN Tokens(FALSE, set_security_error(-1, 0, "Invalid local reader handle"), << >>)
  ELSE IF remote_datawriter_crypto = HANDLE_NIL
  THEN Tokens(FALSE, set_security_error(-1, 0, "Invalid remote writer handle"), << >>)
  ELSE IF Has(g.keys, local_datareader_crypto)
  THEN Tokens(TRUE, NoError, keys_to_tokens(g.keys[local_datareader_crypto]))
  ELSE Tokens(TRUE, NoError, << >>)

\* set_remote_participant_crypto_tokens appending to the list already stored
set_remote_participant_crypto_tokens_Appends(g, local_participant_crypto, remote_participant_crypto, remote_participant_tokens) ==
  IF local_participant_crypto = HANDLE_NIL
  THEN Returned(g, FALSE, set_security_error(-1, 0, "Invalid local participant handle"))
  ELSE IF remote_participant_crypto = HANDLE_NIL
  THEN Returned(g, FALSE, set_security_error(-1, 0, "Invalid remote participant handle"))
  ELSE Returned([ g EXCEPT !.keys =
                    Put(@, remote_participant_crypto,
                        Touch(@, remote_participant_crypto, << >>)[remote_participant_crypto]
                          \o tokens_to_keys(remote_participant_tokens)) ],
                TRUE, NoError)

set_remote_participant_crypto_tokens(g, local_participant_crypto, remote_participant_crypto, remote_participant_tokens) ==
  IF local_participant_crypto = HANDLE_NIL
  THEN Returned(g, FALSE, set_security_error(-1, 0, "Invalid local participant handle"))
  ELSE IF remote_participant_crypto = HANDLE_NIL
  THEN Returned(g, FALSE, set_security_error(-1, 0, "Invalid remote participant handle"))
  ELSE Returned([ g EXCEPT !.keys = Put(@, remote_participant_crypto,
                                        tokens_to_keys(remote_participant_tokens)) ],
                TRUE, NoError)

set_remote_datawriter_crypto_tokens(g, local_datareader_crypto, remote_datawriter_crypto, remote_datawriter_tokens) ==
  IF local_datareader_crypto = HANDLE_NIL
  THEN Returned(g, FALSE, set_security_error(-1, 0, "Invalid local datareader handle"))
  ELSE IF remote_datawriter_crypto = HANDLE_NIL
  THEN Returned(g, FALSE, set_security_error(-1, 0, "Invalid remote datawriter handle"))
  ELSE Returned([ g EXCEPT !.keys = Put(@, remote_datawriter_crypto,
                                        tokens_to_keys(remote_datawriter_tokens)) ],
                TRUE, NoError)

set_remote_datareader_crypto_tokens(g, local_datawriter_crypto, remote_datareader_crypto, remote_datareader_tokens) ==
  IF local_datawriter_crypto = HANDLE_NIL
  THEN Returned(g, FALSE, set_security_error(-1, 0, "Invalid local datawriter handle"))
  ELSE IF remote_datareader_crypto = HANDLE_NIL
  THEN Returned(g, FALSE, set_security_error(-1, 0, "Invalid remote datareader handle"))
  ELSE Returned([ g EXCEPT !.keys = Put(@, remote_datareader_crypto,
                                        tokens_to_keys(remote_datareader_tokens)) ],
                TRUE, NoError)

----------------------------------------------------------------------------
(* Key registry: encoding and the sender lookup *)

\* sessions_[sKey]
SessionAt(g, sKey) == IF Has(g.sess, sKey) THEN g.sess[sKey] ELSE NewSession

\* the output is the input
PlainOut(g, plain, handle, index) ==
  [ g |-> g, ok |-> TRUE, ex |-> NoError, protected |-> FALSE, out |-> plain,
    handle |-> handle, key_idx |-> 0, index |-> index ]

EncodeFailed(g, msg, handle, index) ==
  [ g |-> g, ok |-> FALSE, ex |-> set_security_error(-1, 0, msg), protected |-> FALSE,
    out |-> NoData, handle |-> handle, key_idx |-> 0, index |-> index ]

\* the output an encrypt or authtag call protected, and its session stored
ProtectedOut(g, sKey, e, encrypted) ==
  [ g |-> [ g EXCEPT !.sess = Put(@, sKey, e.sess) ],
    ok |-> TRUE, ex |-> NoError, protected |-> TRUE,
    out |-> [ header |-> e.header, encrypted |-> encrypted, length |-> e.out.len,
              body |-> e.out, footer |-> e.footer ],
    handle |-> sKey[1], key_idx |-> sKey[2], index |-> 0 ]

\* the dispatch on the kind of the key k, common to the encode operations
EncodeWith(g, sKey, k, plain, authPlain, rid, riv) ==
  IF encrypts(k)
  THEN ProtectedOut(g, sKey, encrypt(k, SessionAt(g, sKey), plain, rid, riv), TRUE)
  ELSE IF authenticates(k)
  THEN ProtectedOut(g, sKey, authtag(k, SessionAt(g, sKey), authPlain, rid, riv), FALSE)
  ELSE EncodeFailed(g, "Key transform kind unrecognized", sKey[1], 0)

\* encode_serialized_payload without the test of payload_
PayloadWith_IgnoresOption(g1, plain_buffer, h, keyseq, rid, riv) ==
  IF Len(keyseq) = 0 THEN PlainOut(g1, plain_buffer, h, 0)
  ELSE EncodeWith(g1, << h, IF Len(keyseq) >= 2 THEN 1 ELSE 0 >>,
                  keyseq[IF Len(keyseq) >= 2 THEN 2 ELSE 1],
                  plain_buffer, plain_buffer, rid, riv)

\* encode_serialized_payload taking the first key of every list
PayloadWith_FirstKey(g1, plain_buffer, h, keyseq, rid, riv) ==
  IF ~g1.opts[h].payload_ THEN PlainOut(g1, plain_buffer, h, 0)
  ELSE IF Len(keyseq) = 0 THEN PlainOut(g1, plain_buffer, h, 0)
  ELSE EncodeWith(g1, << h, 0 >>, keyseq[1], plain_buffer, plain_buffer, rid, riv)

\* encode_serialized_payload, once encrypt_options_[h] has been looked up
PayloadWith(g1, plain_buffer, h, keyseq, rid, riv) ==
  IF ~g1.opts[h].payload_ THEN PlainOut(g1, plain_buffer, h, 0)
  ELSE IF Len(keyseq) = 0 THEN PlainOut(g1, plain_buffer, h, 0)
  ELSE EncodeWith(g1, << h, IF Len(keyseq) >= 2 THEN 1 ELSE 0 >>,
                  keyseq[IF Len(keyseq) >= 2 THEN 2 ELSE 1],
                  plain_buffer, plain_buffer, rid, riv)

encode_serialized_payload(g, plain_buffer, sending_datawriter_crypto, rid, riv) ==
  IF sending_datawriter_crypto = HANDLE_NIL
  THEN EncodeFailed(g, "Invalid datawriter handle", sending_datawriter_crypto, 0)
  ELSE IF ~Has(g.keys, sending_datawriter_crypto)
  THEN PlainOut(g, plain_buffer, sending_datawriter_crypto, 0)
  ELSE PayloadWith([ g EXCEPT !.opts = Touch(@, sending_datawriter_crypto, DefaultEncryptOpts) ],
                   plain_buffer, sending_datawriter_crypto,
                   g.keys[sending_datawriter_crypto], rid, riv)

\* the submessage with octetsToNextHeader patched in when it was 0
PatchedLength(plain) ==
  IF plain.submessageLength = 0
  THEN [ plain EXCEPT !.submessageLength = plain.len - 4 ]
  ELSE plain

encode_submessage(g, plain_rtps_submessage, sender_handle, rid, riv) ==
  IF ~Has(g.keys, sender_handle) THEN PlainOut(g, plain_rtps_submessage, sender_handle, 0)
  ELSE IF Len(g.keys[sender_handle]) = 0
  THEN PlainOut(g, plain_rtps_submessage, sender_handle, 0)
  ELSE EncodeWith(g, << sender_handle, 0 >>, g.keys[sender_handle][1],
                  plain_rtps_submessage, PatchedLength(plain_rtps_submessage), rid, riv)

\* the substitution made for every receiver list that is not empty
EncodeHandle_AnyLength(g, sending, receiving_list) ==
  IF /\ Len(receiving_list) >= 1
     /\ Has(g.keys, sending)
     /\ Len(g.keys[sending]) = 1
     /\ is_volatile_placeholder(g.keys[sending][1])
  THEN receiving_list[1]
  ELSE sending

\* the handle whose key encodes: the single receiver's when the sender holds
\* the volatile placeholder
EncodeHandle(g, sending, receiving_list) ==
  IF /\ Len(receiving_list) = 1
     /\ Has(g.keys, sending)
     /\ Len(g.keys[sending]) = 1
     /\ is_volatile_placeholder(g.keys[sending][1])
  THEN receiving_list[1]
  ELSE sending

\* receiving_datareader_crypto_list_index is set to the length on success
WithIndex(r, len, index) == [ r EXCEPT !.index = IF r.ok THEN len ELSE index ]

\* encode_datawriter_submessage, once encrypt_options_[h] has been looked up
WriterSubmessageWith(g1, plain, h, list, index, rid, riv) ==
  IF ~g1.opts[h].submessage_ THEN PlainOut(g1, plain, h, Len(list))
  ELSE WithIndex(encode_submessage(g1, plain, EncodeHandle(g1, h, list), rid, riv),
                 Len(list), index)

encode_datawriter_submessage(g, plain_rtps_submessage, sending_datawriter_crypto, receiving_datareader_crypto_list, receiving_datareader_crypto_list_index, rid, riv) ==
  IF sending_datawriter_crypto = HANDLE_NIL
  THEN EncodeFailed(g, "Invalid DataWriter handle", sending_datawriter_crypto,
                    receiving_datareader_crypto_list_index)
  ELSE IF receiving_datareader_crypto_list_index < 0
  THEN EncodeFailed(g, "Negative list index", sending_datawriter_crypto,
                    receiving_datareader_crypto_list_index)
  ELSE IF /\ Len(receiving_datareader_crypto_list) # 0
          /\ receiving_datareader_crypto_list_index >= Len(receiving_datareader_crypto_list)
  THEN EncodeFailed(g, "List index too large", sending_datawriter_crypto,
                    receiving_datareader_crypto_list_index)
  ELSE IF \E i \in 1..Len(receiving_datareader_crypto_list) :
            receiving_datareader_crypto_list[i] = HANDLE_NIL
  THEN EncodeFailed(g, "Invalid DataReader handle in list", sending_datawriter_crypto,
                    receiving_datareader_crypto_list_index)
  ELSE WriterSubmessageWith(
         [ g EXCEPT !.opts = Touch(@, sending_datawriter_crypto, DefaultEncryptOpts) ],
         plain_rtps_submessage, sending_datawriter_crypto, receiving_datareader_crypto_list,
         receiving_datareader_crypto_list_index, rid, riv)

encode_datareader_submessage(g, plain_rtps_submessage, sending_datareader_crypto, receiving_datawriter_crypto_list, rid, riv) ==
  IF sending_datareader_crypto = HANDLE_NIL
  THEN EncodeFailed(g, "Invalid DataReader handle", sending_datareader_crypto, 0)
  ELSE IF \E i \in 1..Len(receiving_datawriter_crypto_list) :
            receiving_datawriter_crypto_list[i] = HANDLE_NIL
  THEN EncodeFailed(g, "Invalid DataWriter handle in list", sending_datareader_crypto, 0)
  ELSE encode_submessage(g, plain_rtps_submessage,
                         EncodeHandle(g, sending_datareader_crypto,
                                      receiving_datawriter_crypto_list), rid, riv)

\* what encode_rtps_message and decode_rtps_message return: the output buffer
\* (left empty by a call that fails) and the list index after the call
RtpsOut(ok, ex, out, index) == [ ok |-> ok, ex |-> ex, out |-> out, index |-> index ]

\* the handle the index selects, nil when it selects none
DestHandle(list, index) ==
  IF index >= 0 /\ index < Len(list) THEN list[index + 1] ELSE HANDLE_NIL

\* encode_rtps_message without the test of the selected handle
encode_rtps_message_AnyIndex(plain_rtps_message, sending_participant_crypto, receiving_participant_crypto_list, receiving_participant_crypto_list_index) ==
  IF sending_participant_crypto = HANDLE_NIL
  THEN RtpsOut(FALSE, set_security_error(-1, 0, "Invalid DataReader handle"), NoData,
               receiving_participant_crypto_list_index)
  ELSE IF Len(receiving_participant_crypto_list) = 0
  THEN RtpsOut(FALSE, set_security_error(-1, 0, "No Datawriters specified"), NoData,
               receiving_participant_crypto_list_index)
  ELSE RtpsOut(TRUE, NoError, plain_rtps_message, receiving_participant_crypto_list_index + 1)

encode_rtps_message(plain_rtps_message, sending_participant_crypto, receiving_participant_crypto_list, receiving_participant_crypto_list_index) ==
  IF sending_participant_crypto = HANDLE_NIL
  THEN RtpsOut(FALSE, set_security_error(-1, 0, "Invalid DataReader handle"), NoData,
               receiving_participant_crypto_list_index)
  ELSE IF Len(receiving_participant_crypto_list) = 0
  THEN RtpsOut(FALSE, set_security_error(-1, 0, "No Datawriters specified"), NoData,
               receiving_participant_crypto_list_index)
  ELSE IF DestHandle(receiving_participant_crypto_list,
                     receiving_participant_crypto_list_index) = HANDLE_NIL
  THEN RtpsOut(FALSE, set_security_error(-1, 0, "Invalid receiver handle"), NoData,
               receiving_participant_crypto_list_index)
  ELSE RtpsOut(TRUE, NoError, plain_rtps_message, receiving_participant_crypto_list_index + 1)

decode_rtps_message(encoded_buffer, receiving_participant_crypto, sending_participant_crypto) ==
  IF receiving_participant_crypto = HANDLE_NIL
  THEN RtpsOut(FALSE, set_security_error(-1, 0, "Invalid Receiving Participant handle"),
               NoData, 0)
  ELSE IF sending_participant_crypto = HANDLE_NIL
  THEN RtpsOut(FALSE, set_security_error(-1, 0, "No Sending Participant handle"), NoData, 0)
  ELSE RtpsOut(TRUE, NoError, encoded_buffer, 0)

\* the sender lookup: the first entity under the sending participant, in the
\* order of the multimap, one of whose keys matches the header
RECURSIVE FirstMatch(_, _, _)
FirstMatch(g, candidates, ch) ==
  IF candidates = << >> THEN [ found |-> FALSE ]
  ELSE LET e == Head(candidates).entity
           keyseq == IF Has(g.keys, e.handle_) THEN g.keys[e.handle_] ELSE << >>
       IN  IF \E i \in 1..Len(keyseq) : matches(keyseq[i], ch)
           THEN [ found |-> TRUE, entity |-> e,
                  key_idx |-> (CHOOSE i \in 1..Len(keyseq) :
                                 /\ matches(keyseq[i], ch)
                                 /\ \A j \in 1..(i - 1) : ~matches(keyseq[j], ch)) - 1 ]
           ELSE FirstMatch(g, Tail(candidates), ch)

\* the three reference parameters of preprocess_secure_submsg, as a caller
\* that has set none of them passes them in
NilOutputs ==
  [ category |-> INFO_SUBMESSAGE, datawriter_crypto |-> HANDLE_NIL,
    datareader_crypto |-> HANDLE_NIL ]

PreprocessFailed(out0, code, minor, msg) ==
  [ ok |-> FALSE, ex |-> set_security_error(code, minor, msg), category |-> out0.category,
    datawriter_crypto |-> out0.datawriter_crypto,
    datareader_crypto |-> out0.datareader_crypto ]

\* preprocess_secure_submsg returning the first entity that holds any key
preprocess_secure_submsg_AnyKey(g, out0, ch, receiving_participant_crypto, sending_participant_crypto) ==
  IF receiving_participant_crypto = HANDLE_NIL
  THEN PreprocessFailed(out0, -1, 0, "Invalid Receiving Participant")
  ELSE IF sending_participant_crypto = HANDLE_NIL
  THEN PreprocessFailed(out0, -1, 0, "Invalid Sending Participant")
  ELSE LET holders == SelectSeq(EqualRange(g.p2e, sending_participant_crypto),
                                LAMBDA x : Has(g.keys, x.entity.handle_)
                                           /\ Len(g.keys[x.entity.handle_]) > 0)
       IN  IF holders # << >>
           THEN [ ok |-> TRUE, ex |-> NoError, category |-> holders[1].entity.category_,
                  datawriter_crypto |->
                    IF holders[1].entity.category_ = DATAWRITER_SUBMESSAGE
                    THEN holders[1].entity.handle_ ELSE out0.datawriter_crypto,
                  datareader_crypto |->
                    IF holders[1].entity.category_ = DATAREADER_SUBMESSAGE
                    THEN holders[1].entity.handle_ ELSE out0.datareader_crypto ]
           ELSE PreprocessFailed(out0, -2, 1, "Crypto Key not registered")

\* out0 holds the caller's values of the reference parameters, which a path
\* that does not assign them leaves as they are
preprocess_secure_submsg(g, out0, ch, receiving_participant_crypto, sending_participant_crypto) ==
  IF receiving_participant_crypto = HANDLE_NIL
  THEN PreprocessFailed(out0, -1, 0, "Invalid Receiving Participant")
  ELSE IF sending_participant_crypto = HANDLE_NIL
  THEN PreprocessFailed(out0, -1, 0, "Invalid Sending Participant")
  ELSE LET m == FirstMatch(g, EqualRange(g.p2e, sending_participant_crypto), ch)
       IN  IF m.found
           THEN [ ok |-> TRUE, ex |-> NoError, category |-> m.entity.category_,
                  datawriter_crypto |-> IF m.entity.category_ = DATAWRITER_SUBMESSAGE
                                        THEN m.entity.handle_ ELSE out0.datawriter_crypto,
                  datareader_crypto |-> IF m.entity.category_ = DATAREADER_SUBMESSAGE
                                        THEN m.entity.handle_ ELSE out0.datareader_crypto ]
           ELSE PreprocessFailed(out0, -2, 1, "Crypto Key not registered")

----------------------------------------------------------------------------
(* Decoding *)

\* what a decode operation returns, and the registry it leaves
DecodeOut(g, ok, ex, out) == [ g |-> g, ok |-> ok, ex |-> ex, out |-> out ]

\* the CryptoHeader the deserializer reads from the front of a buffer; a
\* buffer that was not protected holds no transform identifier of a key
NoHeader ==
  [ transformation_kind |-> << >>, transformation_key_id |-> << >>,
    session_id |-> << >>, initialization_vector_suffix |-> << >> ]

HeaderIn(encoded) == IF "header" \in DOMAIN encoded THEN encoded.header ELSE NoHeader

\* the loop over the key list: the position of the first key that matches
\* the header, 0 when none does
FirstKey(keyseq, ch) ==
  IF \E i \in 1..Len(keyseq) : matches(keyseq[i], ch)
  THEN CHOOSE i \in 1..Len(keyseq) :
         /\ matches(keyseq[i], ch)
         /\ \A j \in 1..(i - 1) : ~matches(keyseq[j], ch)
  ELSE 0

\* decrypt or verify returned d, having worked on sessions_[sKey]
SessionDecoded(g, sKey, d) ==
  DecodeOut([ g EXCEPT !.sess = Put(@, sKey, d.sess) ], d.ok,
            IF d.ok THEN NoError ELSE set_security_error(-1, 0, d.err), d.out)

\* decode_submessage, once keys_[sender_handle] has been looked up and the
\* loop has stopped at position i
SubmessageWith(g1, encoded, sender_handle, keyseq, i) ==
  IF i = 0
  THEN DecodeOut(g1, FALSE, set_security_error(-2, 1, "Crypto Key not found"), NoData)
  ELSE IF encrypts(keyseq[i])
  THEN SessionDecoded(g1, << sender_handle, i - 1 >>,
                      decrypt(keyseq[i], SessionAt(g1, << sender_handle, i - 1 >>),
                              encoded.body, encoded.header, encoded.footer))
  ELSE IF authenticates(keyseq[i])
  THEN SessionDecoded(g1, << sender_handle, i - 1 >>,
                      verify(keyseq[i], SessionAt(g1, << sender_handle, i - 1 >>),
                             encoded.body, encoded.header, encoded.footer))
  ELSE DecodeOut(g1, FALSE, set_security_error(-2, 2, "Key transform kind unrecognized"),
                 NoData)

decode_submessage(g, encoded_rtps_submessage, sender_handle) ==
  SubmessageWith([ g EXCEPT !.keys = Touch(@, sender_handle, << >>) ],
                 encoded_rtps_submessage, sender_handle,
                 Touch(g.keys, sender_handle, << >>)[sender_handle],
                 FirstKey(Touch(g.keys, sender_handle, << >>)[sender_handle],
                          HeaderIn(encoded_rtps_submessage)))

decode_datawriter_submessage(g, encoded_rtps_submessage, receiving_datareader_crypto, sending_datawriter_crypto) ==
  IF sending_datawriter_crypto = HANDLE_NIL
  THEN DecodeOut(g, FALSE, set_security_error(-1, 0, "Invalid Datawriter handle"), NoData)
  ELSE decode_submessage(g, encoded_rtps_submessage, sending_datawriter_crypto)

decode_datareader_submessage(g, encoded_rtps_submessage, receiving_datawriter_crypto, sending_datareader_crypto) ==
  IF sending_datareader_crypto = HANDLE_NIL
  THEN DecodeOut(g, FALSE, set_security_error(-1, 0, "Invalid Datareader handle"), NoData)
  ELSE decode_submessage(g, encoded_rtps_submessage, sending_datareader_crypto)

\* decode_serialized_payload, once keys_[h] has been looked up and the loop
\* has stopped at position i
SerializedPayloadWith(g2, encoded, h, keyseq, i) ==
  IF i = 0
  THEN DecodeOut(g2, FALSE, set_security_error(-3, 1, "Crypto Key not found"), NoData)
  ELSE IF encrypts(keyseq[i])
  THEN SessionDecoded(g2, << h, i - 1 >>,
                      decrypt(keyseq[i], SessionAt(g2, << h, i - 1 >>),
                              encoded.body, encoded.header, encoded.footer))
  ELSE IF authenticates(keyseq[i])
  THEN DecodeOut(g2, FALSE,
                 set_security_error(-3, 3, "Auth-only payload transformation not supported (DDSSEC12-59)"),
                 NoData)
  ELSE DecodeOut(g2, FALSE, set_security_error(-3, 2, "Key transform kind unrecognized"),
                 NoData)

\* decode_serialized_payload with the test encode_serialized_payload makes:
\* the input is returned when the sender has no keys_ entry
PayloadDecodedWith_KeysCounted(g1, encoded, h) ==
  IF ~Has(g1.keys, h) \/ ~g1.opts[h].payload_ THEN DecodeOut(g1, TRUE, NoError, encoded)
  ELSE SerializedPayloadWith(g1, encoded, h, g1.keys[h], FirstKey(g1.keys[h], HeaderIn(encoded)))

\* decode_serialized_payload, once encrypt_options_[h] has been looked up
PayloadDecodedWith(g1, encoded, h) ==
  IF ~g1.opts[h].payload_ THEN DecodeOut(g1, TRUE, NoError, encoded)
  ELSE SerializedPayloadWith([ g1 EXCEPT !.keys = Touch(@, h, << >>) ], encoded, h,
                             Touch(g1.keys, h, << >>)[h],
                             FirstKey(Touch(g1.keys, h, << >>)[h], HeaderIn(encoded)))

decode_serialized_payload(g, encoded_buffer, receiving_datareader_crypto, sending_datawriter_crypto) ==
  IF sending_datawriter_crypto = HANDLE_NIL
  THEN DecodeOut(g, FALSE, set_security_error(-1, 0, "Invalid Datawriter handle"), NoData)
  ELSE PayloadDecodedWith(
         [ g EXCEPT !.opts = Touch(@, sending_datawriter_crypto, DefaultEncryptOpts) ],
         encoded_buffer, sending_datawriter_crypto)

----------------------------------------------------------------------------
(* Inputs *)

Plain(len, b) == [ len |-> len, body |-> <<b>> ]

\* one full session's worth of plaintext: 1024 blocks
FullSessionLen == MAX_BLOCKS_PER_SESSION * BLOCK_LEN_BYTES

\* plaintexts: empty, one octet more than a block, 1024 blocks
Plains == { NoData, Plain(BLOCK_LEN_BYTES + 1, 0), Plain(FullSessionLen, 0) }

\* a single-bit change of a non-empty plaintext, and of a tag
FlipPlain(p) == [ p EXCEPT !.body = << "flipped", p.body >> ]
FlipTag(t) == << "flipped", t >>

\* The key materials a sending handle's key list can hold: what make_key
\* generates, and what tokens_to_keys stores (any kind the peer sent).
MasterKinds == { CRYPTO_TRANSFORMATION_KIND_AES128_GMAC, CRYPTO_TRANSFORMATION_KIND_AES128_GCM,
                 CRYPTO_TRANSFORMATION_KIND_AES256_GMAC, CRYPTO_TRANSFORMATION_KIND_AES256_GCM }

SessionMasters ==
  { KeyMaterial(<<0, 0, 0, k>>, Fill(KEY_LEN_BYTES, 17), <<1, 0, 0, 0>>, Fill(KEY_LEN_BYTES, 165)) :
      k \in MasterKinds }

\* RAND_bytes is called for the session id when the session is created, and
\* for the iv suffix when it is created or rotated
DrawnIds(s, plain) ==
  IF SetupBranch(s, plain) = "create" THEN RandIds ELSE { << 0, 0, 0, 0 >> }
DrawnIvs(s, plain) ==
  IF SetupBranch(s, plain) = "advance" THEN { << 0, 0, 0, 0, 0, 0, 0, 0 >> } ELSE RandIvs

\* number of messages one run of the engine specifications encodes
MaxEncodes == 3

----------------------------------------------------------------------------
(* Idle values of the variable groups a specification does not use *)

RegIdle ==
  /\ next_handle_ = 1
  /\ keys_ = EmptyMap
  /\ participant_to_entity_ = << >>
  /\ encrypt_options_ = EmptyMap
  /\ sessions_ = EmptyMap
  /\ ret = [ op |-> "init" ]
  /\ issuedAs = EmptyMap

EngIdle ==
  /\ master = make_volatile_placeholder
  /\ sess = NewSession
  /\ rsess = NewSession
  /\ wire = << >>
  /\ res = [ op |-> "init" ]

ConcIdle ==
  /\ mutex_ = 0
  /\ pc = << >>
  /\ loc = << >>
  /\ issued = << >>

CodecIdle == codec = [ op |-> "init" ]

PairIdle ==
  /\ peer = [ op |-> "init" ]
  /\ inflight = [ op |-> "init" ]

----------------------------------------------------------------------------
(* Specification SpecSession: one sender and one receiver of a (handle, key *)
(* index), both holding `master`.  The sender encodes through encrypt or    *)
(* authtag, as encode_serialized_payload and encode_submessage dispatch on  *)
(* encrypts/authenticates; the receiver decodes any message encoded so far, *)
(* in any order, as decode_submessage dispatches.                           *)

SessionInit ==
  /\ master \in SessionMasters
  /\ sess = NewSession
  /\ rsess = NewSession
  /\ wire = << >>
  /\ res = [ op |-> "init" ]
  /\ RegIdle /\ ConcIdle /\ CodecIdle /\ PairIdle

EpochAfter(branch) ==
  IF branch = "advance" THEN wire[Len(wire)].epoch
  ELSE IF wire = << >> THEN 1 ELSE wire[Len(wire)].epoch + 1

Sent(r, p, branch) ==
  [ header |-> r.header, body |-> r.out, footer |-> r.footer, plain |-> p,
    epoch |-> EpochAfter(branch) ]

EngEncode(op, r, p) ==
  /\ sess' = r.sess
  /\ wire' = Append(wire, Sent(r, p, SetupBranch(sess, p)))
  /\ res' = [ op |-> op, ok |-> r.ok, branch |-> SetupBranch(sess, p), prev |-> sess,
              header |-> r.header, plain |-> p ]
  /\ UNCHANGED <<master, rsess>>

EngEncrypt ==
  /\ Len(wire) < MaxEncodes
  /\ encrypts(master)
  /\ \E p \in Plains : \E rid \in DrawnIds(sess, p), riv \in DrawnIvs(sess, p) :
       EngEncode("encrypt", encrypt(master, sess, p, rid, riv), p)
  /\ UNCHANGED <<regVars, concVars, codec, pairVars>>

EngAuthtag ==
  /\ Len(wire) < MaxEncodes
  /\ ~encrypts(master) /\ authenticates(master)
  /\ \E p \in Plains : \E rid \in DrawnIds(sess, p), riv \in DrawnIvs(sess, p) :
       EngEncode("authtag", authtag(master, sess, p, rid, riv), p)
  /\ UNCHANGED <<regVars, concVars, codec, pairVars>>

Tampers == { "none", "tag", "data" }

\* what the receiver is handed: the message as sent, or with one bit of the
\* tag or of the data changed
Received(m, tamper) ==
  [ header |-> m.header,
    body |-> IF tamper = "data" THEN FlipPlain(m.body) ELSE m.body,
    footer |-> IF tamper = "tag" THEN [ common_mac |-> FlipTag(m.footer.common_mac) ]
               ELSE m.footer ]

EngDecode(op, r, i, tamper) ==
  /\ rsess' = r.sess
  /\ res' = [ op |-> op, ok |-> r.ok, out |-> r.out, msg |-> i, tamper |-> tamper,
              prev |-> rsess ]
  /\ UNCHANGED <<master, sess, wire>>

EngDecrypt ==
  /\ encrypts(master)
  /\ \E i \in 1..Len(wire), tamper \in Tampers :
       /\ matches(master, wire[i].header)
       /\ tamper = "data" => wire[i].body.len > 0
       /\ LET m == Received(wire[i], tamper)
          IN  EngDecode("decrypt", decrypt(master, rsess, m.body, m.header, m.footer), i, tamper)
  /\ UNCHANGED <<regVars, concVars, codec, pairVars>>

EngVerify ==
  /\ ~encrypts(master) /\ authenticates(master)
  /\ \E i \in 1..Len(wire), tamper \in Tampers :
       /\ matches(master, wire[i].header)
       /\ tamper = "data" => wire[i].body.len > 0
       /\ LET m == Received(wire[i], tamper)
          IN  EngDecode("verify", verify(master, rsess, m.body, m.header, m.footer), i, tamper)
  /\ UNCHANGED <<regVars, concVars, codec, pairVars>>

SessionNext == EngEncrypt \/ EngAuthtag \/ EngDecrypt \/ EngVerify

SpecSession == SessionInit /\ [][SessionNext]_vars

AlgOf(m) == m.transformation_kind[TransformKindIndex + 1]

----------------------------------------------------------------------------
(* Specification SpecRotate: one sender, starting from a fresh session of  *)
(* its (handle, key index), encodes a run of one-block messages (1 to 16    *)
(* plaintext octets each) under a key make_key generated.                   *)

\* one-block plaintexts: 1 octet and 16 octets
OneBlockPlains == { Plain(1, 0), Plain(BLOCK_LEN_BYTES, 0) }

\* number of messages of one run
RotateRun == 1027

RotateMasters ==
  { make_key(1, e, Fill(KEY_LEN_BYTES, 17), Fill(KEY_LEN_BYTES, 165)) : e \in BOOLEAN }

RotateInit ==
  /\ master \in RotateMasters
  /\ sess = NewSession
  /\ rsess = NewSession
  /\ wire = << >>
  /\ res = [ op |-> "init", n |-> 0 ]
  /\ RegIdle /\ ConcIdle /\ CodecIdle /\ PairIdle

\* n: the message's number in the run; first: the session_id of message 1
RotEncode(r, p) ==
  /\ sess' = r.sess
  /\ res' = [ op |-> "encode", n |-> res.n + 1, branch |-> SetupBranch(sess, p), prev |-> sess,
              header |-> r.header, key |-> r.sess.key_,
              first |-> IF res.n = 0 THEN r.header.session_id ELSE res.first ]
  /\ UNCHANGED <<master, rsess, wire>>

RotEncrypt ==
  /\ res.n < RotateRun
  /\ encrypts(master)
  /\ \E p \in OneBlockPlains : \E rid \in DrawnIds(sess, p), riv \in DrawnIvs(sess, p) :
       RotEncode(encrypt(master, sess, p, rid, riv), p)
  /\ UNCHANGED <<regVars, concVars, codec, pairVars>>

RotAuthtag ==
  /\ res.n < RotateRun
  /\ ~encrypts(master) /\ authenticates(master)
  /\ \E p \in OneBlockPlains : \E rid \in DrawnIds(sess, p), riv \in DrawnIvs(sess, p) :
       RotEncode(authtag(master, sess, p, rid, riv), p)
  /\ UNCHANGED <<regVars, concVars, codec, pairVars>>

RotateNext == RotEncrypt \/ RotAuthtag

SpecRotate == RotateInit /\ [][RotateNext]_vars

----------------------------------------------------------------------------
(* Spec: the registry driven through its interface by callers that pass the *)
(* handles the registry returned to them                                     *)

\* handles generate_handle may issue
MaxHandle == 4
\* blocks a session of the registry may count
MaxSessionBlocks == 0

\* the IdentityHandle and PermissionsHandle of a participant
Identity == 1
Permissions == 1

\* what register_local_participant is called with: valid arguments, each
\* argument invalid alone, and all of them invalid
ParticipantArgs ==
  { [ participant |-> HANDLE_NIL, identity |-> a[1], permissions |-> a[2],
      is_rtps_protected |-> a[3] ] :
      a \in { << Identity, Permissions, FALSE >>, << HANDLE_NIL, Permissions, FALSE >>,
              << Identity, HANDLE_NIL, FALSE >>, << Identity, Permissions, TRUE >>,
              << HANDLE_NIL, HANDLE_NIL, TRUE >> } }

NullSecret == [ null |-> TRUE ]
SharedSecret ==
  [ null |-> FALSE, challenge1 |-> Fill(KEY_LEN_BYTES, 1), challenge2 |-> Fill(KEY_LEN_BYTES, 2),
    sharedSecret |-> Fill(KEY_LEN_BYTES, 9) ]
SharedSecrets == { NullSecret, SharedSecret }

\* what a matched remote endpoint is registered with, given the local
\* endpoints and the remote participants: valid arguments with the digests
\* working or failing, and each argument invalid alone
MatchedArgs(locals, participants) ==
  { [ participant |-> p, local |-> l, secret |-> SharedSecret, digest_ok |-> d ] :
      l \in locals, p \in participants, d \in BOOLEAN }
  \cup { [ participant |-> p, local |-> HANDLE_NIL, secret |-> SharedSecret,
           digest_ok |-> TRUE ] : p \in participants }
  \cup { [ participant |-> HANDLE_NIL, local |-> l, secret |-> SharedSecret,
           digest_ok |-> TRUE ] : l \in locals }
  \cup { [ participant |-> p, local |-> l, secret |-> NullSecret, digest_ok |-> TRUE ] :
           l \in locals, p \in participants }

NoProperties == << >>
VolatileWriterProperties == << [ name |-> BuiltinEndpointName, value |-> VolatileWriterName ] >>
VolatileReaderProperties == << [ name |-> BuiltinEndpointName, value |-> VolatileReaderName ] >>

Attributes(sub, pay, mask) ==
  [ is_submessage_protected |-> sub, is_payload_protected |-> pay,
    plugin_endpoint_attributes |-> mask ]

BothEncrypted == Attributes(TRUE, TRUE, FLAG_IS_SUBMESSAGE_ENCRYPTED + FLAG_IS_PAYLOAD_ENCRYPTED)
SubmessageSigned == Attributes(TRUE, FALSE, 0)
PayloadEncrypted == Attributes(FALSE, TRUE, FLAG_IS_PAYLOAD_ENCRYPTED)
SignedThenEncrypted == Attributes(TRUE, TRUE, FLAG_IS_PAYLOAD_ENCRYPTED)
Unprotected == Attributes(FALSE, FALSE, 0)

\* the properties and attributes endpoints are registered with
WriterConfigs ==
  { <<NoProperties, BothEncrypted>>, <<NoProperties, SubmessageSigned>>,
    <<NoProperties, PayloadEncrypted>>, <<NoProperties, SignedThenEncrypted>>,
    <<VolatileWriterProperties, BothEncrypted>> }
ReaderConfigs ==
  { <<NoProperties, BothEncrypted>>, <<NoProperties, SignedThenEncrypted>>,
    <<NoProperties, PayloadEncrypted>>, <<VolatileReaderProperties, Unprotected>> }

\* what RAND_bytes gives the keys of one registration
RegRands ==
  { [ salt1 |-> Fill(KEY_LEN_BYTES, 17), key1 |-> Fill(KEY_LEN_BYTES, 165),
      salt2 |-> Fill(KEY_LEN_BYTES, 165), key2 |-> Fill(KEY_LEN_BYTES, 17) ] }

\* what RAND_bytes gives a session of the registry
RegRandIds == { <<7, 0, 0, 0>> }
RegRandIvs == { <<255, 2, 0, 0, 0, 0, 0, 0>> }

\* a submessage: its length, its content, the submessageLength of its header
Submessage(len, b, smlen) == [ len |-> len, body |-> <<b>>, submessageLength |-> smlen ]

RegPayloads == { Plain(BLOCK_LEN_BYTES, 0) }
RegSubmessages == { Submessage(BLOCK_LEN_BYTES, 0, BLOCK_LEN_BYTES - 4),
                    Submessage(BLOCK_LEN_BYTES, 0, 0) }

\* the key lists a remote participant sends as tokens
RemoteKeyLists ==
  { << make_key(1, TRUE, Fill(KEY_LEN_BYTES, 17), Fill(KEY_LEN_BYTES, 165)) >> }
RemoteTokens == { keys_to_tokens(ks) : ks \in RemoteKeyLists }

\* the handles a call of the given kind returned
Of(kind) == { h \in DOMAIN issuedAs : issuedAs[h] = kind }

\* the record after a call that consumed the handles next_handle_ .. g.next - 1
IssuedAfter(g, handle, kind) ==
  [ x \in (DOMAIN issuedAs) \cup (next_handle_ .. (g.next - 1)) |->
      IF x \in DOMAIN issuedAs THEN issuedAs[x]
      ELSE IF x = handle THEN kind ELSE "key id" ]

\* a run registers one entity of each kind, and fails any number of
\* registrations: no handle was returned as the kind
Unissued(kind) == Of(kind) = {}

Commit(g) ==
  /\ next_handle_' = g.next
  /\ keys_' = g.keys
  /\ participant_to_entity_' = g.p2e
  /\ encrypt_options_' = g.opts
  /\ sessions_' = g.sess

Init ==
  /\ RegIdle
  /\ EngIdle /\ ConcIdle /\ CodecIdle /\ PairIdle

\* a registration call returned r
Registered(op, kind, args, r) ==
  /\ r.handle # HANDLE_NIL => Unissued(kind)
  /\ Commit(r.g)
  /\ ret' = [ op |-> op, handle |-> r.handle, ex |-> r.ex, args |-> args, prev |-> Registry ]
  /\ issuedAs' = IssuedAfter(r.g, r.handle, kind)
  /\ UNCHANGED <<engVars, concVars, codec, pairVars>>

NoArgs == [ participant |-> HANDLE_NIL ]

RegisterLocalParticipant ==
  /\ next_handle_ <= MaxHandle
  /\ \E a \in ParticipantArgs :
       Registered("register_local_participant", "local participant", a,
                  register_local_participant(Registry, a.identity, a.permissions,
                                             a.is_rtps_protected))

RegisterMatchedRemoteParticipant ==
  /\ next_handle_ <= MaxHandle
  /\ \E local \in Of("local participant"), secret \in SharedSecrets :
       Registered("register_matched_remote_participant", "remote participant", NoArgs,
                  register_matched_remote_participant(Registry, local, Identity, Permissions,
                                                      secret))

RegisterLocalDatawriter ==
  /\ next_handle_ <= MaxHandle
  /\ \E p \in Of("local participant") \cup {HANDLE_NIL}, cfg \in WriterConfigs,
        rnd \in RegRands :
       Registered("register_local_datawriter", "local datawriter",
                  [ participant |-> p, properties |-> cfg[1], attrs |-> cfg[2] ],
                  register_local_datawriter(Registry, p, cfg[1], cfg[2], rnd))

RegisterLocalDatareader ==
  /\ next_handle_ <= MaxHandle
  /\ \E p \in Of("local participant") \cup {HANDLE_NIL}, cfg \in ReaderConfigs,
        rnd \in RegRands :
       Registered("register_local_datareader", "local datareader",
                  [ participant |-> p, properties |-> cfg[1], attrs |-> cfg[2] ],
                  register_local_datareader(Registry, p, cfg[1], cfg[2], rnd))

RegisterMatchedRemoteDatareader ==
  /\ next_handle_ <= MaxHandle
  /\ \E a \in MatchedArgs(Of("local datawriter"), Of("remote participant")) :
       Registered("register_matched_remote_datareader", "remote datareader",
                  [ participant |-> a.participant, local |-> a.local, secret |-> a.secret ],
                  register_matched_remote_datareader(Registry, a.local, a.participant,
                                                     a.secret, a.digest_ok))

RegisterMatchedRemoteDatawriter ==
  /\ next_handle_ <= MaxHandle
  /\ \E a \in MatchedArgs(Of("local datareader"), Of("remote participant")) :
       Registered("register_matched_remote_datawriter", "remote datawriter",
                  [ participant |-> a.participant, local |-> a.local, secret |-> a.secret ],
                  register_matched_remote_datawriter(Registry, a.local, a.participant,
                                                     a.secret, a.digest_ok))

\* which maps held an entry of the handle
Held(g, handle) ==
  [ keys |-> Has(g.keys, handle),
    opts |-> Has(g.opts, handle),
    p2e  |-> \E i \in 1..Len(g.p2e) :
               g.p2e[i].participant = handle \/ g.p2e[i].entity.handle_ = handle,
    sess |-> \E k \in DOMAIN g.sess : k[1] = handle ]

\* a call on the handle h returned r
Called(op, h, r) ==
  /\ Commit(r.g)
  /\ ret' = [ op |-> op, handle |-> h, ok |-> r.ok, ex |-> r.ex, held |-> Held(Registry, h),
              prev |-> Registry ]
  /\ UNCHANGED <<issuedAs, engVars, concVars, codec, pairVars>>

UnregisterParticipant ==
  \E h \in Of("local participant") \cup Of("remote participant") \cup {HANDLE_NIL} :
    Called("unregister_participant", h, unregister_participant(Registry, h))

UnregisterDatawriter ==
  \E h \in Of("local datawriter") \cup Of("remote datawriter") \cup {HANDLE_NIL} :
    Called("unregister_datawriter", h, unregister_datawriter(Registry, h))

UnregisterDatareader ==
  \E h \in Of("local datareader") \cup Of("remote datareader") \cup {HANDLE_NIL} :
    Called("unregister_datareader", h, unregister_datareader(Registry, h))

SetRemoteParticipantCryptoTokens ==
  \E local \in Of("local participant"), remote \in Of("remote participant"),
     tokens \in RemoteTokens :
    Called("set_remote_participant_crypto_tokens", remote,
           set_remote_participant_crypto_tokens(Registry, local, remote, tokens))

\* the key that protected the output of an encode call
KeyUsed(r) ==
  IF r.protected THEN keys_[r.handle][r.key_idx + 1] ELSE make_volatile_placeholder

SessionsBounded(g) == \A k \in DOMAIN g.sess : g.sess[k].counter_ <= MaxSessionBlocks

\* an encode call of the sending handle, on the input plain, returned r
Encoded(op, sending, plain, r) ==
  /\ SessionsBounded(r.g)
  /\ Commit(r.g)
  /\ ret' = [ op |-> op, sending |-> sending, plain |-> plain, ok |-> r.ok, ex |-> r.ex,
              protected |-> r.protected, out |-> r.out, handle |-> r.handle,
              key_idx |-> r.key_idx, index |-> r.index, key |-> KeyUsed(r),
              prev |-> Registry ]
  /\ UNCHANGED <<issuedAs, engVars, concVars, codec, pairVars>>

EncodeSerializedPayload ==
  \E h \in Of("local datawriter"), plain \in RegPayloads,
     rid \in RegRandIds, riv \in RegRandIvs :
    Encoded("encode_serialized_payload", h, plain,
            encode_serialized_payload(Registry, plain, h, rid, riv))

\* the receiver lists of an encode call: none, one, or two of the handles
ReceiverLists(handles) ==
  { << >> } \cup { << a >> : a \in handles }
    \cup { p \in handles \X handles : p[1] < p[2] }

EncodeDatawriterSubmessage ==
  \E h \in Of("local datawriter"), plain \in RegSubmessages,
     list \in ReceiverLists(Of("remote datareader")),
     index \in 0..1, rid \in RegRandIds, riv \in RegRandIvs :
    Encoded("encode_datawriter_submessage", h, plain,
            encode_datawriter_submessage(Registry, plain, h, list, index, rid, riv))

EncodeDatareaderSubmessage ==
  \E h \in Of("local datareader"), plain \in RegSubmessages,
     list \in ReceiverLists(Of("remote datawriter")),
     rid \in RegRandIds, riv \in RegRandIvs :
    Encoded("encode_datareader_submessage", h, plain,
            encode_datareader_submessage(Registry, plain, h, list, rid, riv))

Next ==
  \/ RegisterLocalParticipant
  \/ RegisterMatchedRemoteParticipant
  \/ RegisterLocalDatawriter
  \/ RegisterLocalDatareader
  \/ RegisterMatchedRemoteDatareader
  \/ RegisterMatchedRemoteDatawriter
  \/ UnregisterParticipant
  \/ UnregisterDatawriter
  \/ UnregisterDatareader
  \/ SetRemoteParticipantCryptoTokens
  \/ EncodeSerializedPayload
  \/ EncodeDatawriterSubmessage
  \/ EncodeDatareaderSubmessage

Spec == Init /\ [][Next]_vars

----------------------------------------------------------------------------
(* Specification SpecConc: threads that register participants and writers   *)
(* on one instance.  generate_handle is taken apart into the steps another  *)
(* thread can interleave with: the guard's acquire, increment_handle's read *)
(* and write of next_handle_, and the guard's release at the return.        *)

NThreads == 2
MaxIssued == 4

Threads == 1..NThreads

\* the registrations a thread calls, and the calls of generate_handle each makes
ConcOps == { "register_local_participant", "register_local_datawriter" }

ConcAttrs == { BothEncrypted, PayloadEncrypted }

HandlesNeeded(op, attrs) ==
  IF op = "register_local_datawriter" /\ attrs.is_submessage_protected
                                      /\ attrs.is_payload_protected
  THEN 2 ELSE 1

NoCall == [ op |-> "none", attrs |-> Unprotected, participant |-> HANDLE_NIL,
            need |-> 0, got |-> << >>, seen |-> 0, h |-> HANDLE_NIL ]

RECURSIVE Outstanding(_)
Outstanding(ts) ==
  IF ts = {} THEN 0
  ELSE LET t == CHOOSE x \in ts : TRUE
       IN  loc[t].need + Outstanding(ts \ {t})

\* the handles that registrations of the kind have returned
Returned_As(kind) ==
  { issued[i].h : i \in { j \in 1..Len(issued) : issued[j].as = kind } }

ConcInit ==
  /\ RegIdle /\ EngIdle /\ CodecIdle /\ PairIdle
  /\ mutex_ = 0
  /\ pc = [ t \in Threads |-> "idle" ]
  /\ loc = [ t \in Threads |-> NoCall ]
  /\ issued = << >>

\* a thread enters register_local_participant or register_local_datawriter
ConcCall(t) ==
  /\ pc[t] = "idle"
  /\ \E op \in ConcOps, attrs \in ConcAttrs,
        p \in Returned_As("local participant") \cup {HANDLE_NIL} :
       /\ (op = "register_local_datawriter") = (p # HANDLE_NIL)
       /\ Len(issued) + Outstanding(Threads) + HandlesNeeded(op, attrs) <= MaxIssued
       /\ loc' = [ loc EXCEPT ![t] = [ NoCall EXCEPT !.op = op, !.attrs = attrs,
                                                     !.participant = p,
                                                     !.need = HandlesNeeded(op, attrs) ] ]
  /\ pc' = [ pc EXCEPT ![t] = "lock" ]
  /\ UNCHANGED <<regVars, engVars, mutex_, issued, codec, pairVars>>

\* the guard of generate_handle acquiring a mutex another thread may hold
ConcAcquire_NoMutex(t) ==
  /\ pc[t] = "lock"
  /\ mutex_' = t
  /\ pc' = [ pc EXCEPT ![t] = "read" ]
  /\ UNCHANGED <<regVars, engVars, loc, issued, codec, pairVars>>

\* ACE_Guard<ACE_Thread_Mutex> guard(mutex_) in generate_handle
ConcAcquire(t) ==
  /\ pc[t] = "lock"
  /\ mutex_ = 0
  /\ mutex_' = t
  /\ pc' = [ pc EXCEPT ![t] = "read" ]
  /\ UNCHANGED <<regVars, engVars, loc, issued, codec, pairVars>>

\* increment_handle reads next_handle_
ConcRead(t) ==
  /\ pc[t] = "read"
  /\ loc' = [ loc EXCEPT ![t].seen = next_handle_ ]
  /\ pc' = [ pc EXCEPT ![t] = "write" ]
  /\ UNCHANGED <<regVars, engVars, mutex_, issued, codec, pairVars>>

\* increment_handle writes next_handle_
ConcWrite(t) ==
  /\ pc[t] = "write"
  /\ next_handle_' = increment_handle(loc[t].seen).next
  /\ loc' = [ loc EXCEPT ![t].h = increment_handle(loc[t].seen).h ]
  /\ pc' = [ pc EXCEPT ![t] = "unlock" ]
  /\ UNCHANGED <<keys_, participant_to_entity_, encrypt_options_, sessions_, ret, issuedAs,
                 engVars, mutex_, issued, codec, pairVars>>

\* what the value generate_handle returned is used as
IssuedKind(l) ==
  IF l.op = "register_local_participant" THEN "local participant"
  ELSE IF l.got = << >> THEN "local datawriter" ELSE "key id"

\* generate_handle returns: the guard releases the mutex
ConcRelease(t) ==
  /\ pc[t] = "unlock"
  /\ mutex_' = 0
  /\ issued' = Append(issued, [ h |-> loc[t].h, as |-> IssuedKind(loc[t]), by |-> t ])
  /\ loc' = [ loc EXCEPT ![t].got = Append(@, loc[t].h), ![t].need = @ - 1 ]
  /\ pc' = [ pc EXCEPT ![t] = IF loc[t].need > 1 THEN "lock"
                               ELSE IF loc[t].op = "register_local_datawriter" THEN "store"
                               ELSE "idle" ]
  /\ UNCHANGED <<regVars, engVars, codec, pairVars>>

\* the keys register_local_datawriter made from the handles it generated
ConcKeys(l) ==
  IF l.attrs.is_submessage_protected
  THEN << make_key(l.got[1], TRUE, Fill(KEY_LEN_BYTES, 1), Fill(KEY_LEN_BYTES, 2)),
          make_key(l.got[Len(l.got)], TRUE, Fill(KEY_LEN_BYTES, 3), Fill(KEY_LEN_BYTES, 4)) >>
  ELSE << make_key(l.got[1], TRUE, Fill(KEY_LEN_BYTES, 3), Fill(KEY_LEN_BYTES, 4)) >>

\* register_local_datawriter stores its entries under the mutex and returns
ConcStore(t) ==
  /\ pc[t] = "store"
  /\ mutex_ = 0
  /\ keys_' = Put(keys_, loc[t].got[1], ConcKeys(loc[t]))
  /\ participant_to_entity_' =
       MultiInsert(participant_to_entity_, loc[t].participant,
                   EntityInfo(DATAWRITER_SUBMESSAGE, loc[t].got[1]))
  /\ encrypt_options_' = Put(encrypt_options_, loc[t].got[1], EncryptOpts(loc[t].attrs))
  /\ pc' = [ pc EXCEPT ![t] = "idle" ]
  /\ UNCHANGED <<next_handle_, sessions_, ret, issuedAs, engVars, mutex_, loc, issued, codec, pairVars>>

ConcNext ==
  \E t \in Threads :
    \/ ConcCall(t)
    \/ ConcAcquire(t)
    \/ ConcRead(t)
    \/ ConcWrite(t)
    \/ ConcRelease(t)
    \/ ConcStore(t)

SpecConc == ConcInit /\ [][ConcNext]_vars

----------------------------------------------------------------------------
(* Specification SpecCodec: keys_to_tokens and tokens_to_keys applied to    *)
(* lists of key material whose octet sequences have every alignment.        *)

MaxOctets == 5

CodecLengths == (0..MaxOctets) \cup {KEY_LEN_BYTES}

CodecKinds == { << 0, 0, 0, CRYPTO_TRANSFORMATION_KIND_NONE >>,
                << 0, 0, 0, CRYPTO_TRANSFORMATION_KIND_AES256_GCM >>,
                make_volatile_placeholder.transformation_kind }

CodecKeyMaterials ==
  { [ transformation_kind |-> kind,
      master_salt |-> Fill(n, 170),
      sender_key_id |-> id,
      master_sender_key |-> Fill(k, 187),
      receiver_specific_key_id |-> << 0, 0, 0, 0 >>,
      master_receiver_specific_key |-> Fill(r, 204) ] :
    kind \in CodecKinds, n \in CodecLengths, id \in { << 0, 0, 0, 0 >>, << 1, 2, 3, 4 >> },
    k \in { 0, 3, KEY_LEN_BYTES }, r \in { 0, 2 } }

\* the second keys of the lists of two
CodecSeconds ==
  { m \in CodecKeyMaterials :
      /\ m.sender_key_id = << 1, 2, 3, 4 >>
      /\ Len(m.master_sender_key) = 3
      /\ Len(m.master_receiver_specific_key) = 0
      /\ m.transformation_kind[4] = CRYPTO_TRANSFORMATION_KIND_AES256_GCM }

CodecKeyLists ==
  { << >> } \cup { << m >> : m \in CodecKeyMaterials }
    \cup { << m, n >> : m \in CodecSeconds, n \in CodecSeconds }

CodecInit ==
  /\ RegIdle /\ EngIdle /\ ConcIdle /\ PairIdle
  /\ \E keys \in CodecKeyLists : codec = [ op |-> "input", keys |-> keys ]

CodecKeysToTokens ==
  /\ codec.op = "input"
  /\ codec' = [ op |-> "keys_to_tokens", keys |-> codec.keys,
                tokens |-> keys_to_tokens(codec.keys) ]
  /\ UNCHANGED <<regVars, engVars, concVars, pairVars>>

CodecTokensToKeys ==
  /\ codec.op = "keys_to_tokens"
  /\ codec' = [ op |-> "tokens_to_keys", keys |-> codec.keys, tokens |-> codec.tokens,
                back |-> tokens_to_keys(codec.tokens) ]
  /\ UNCHANGED <<regVars, engVars, concVars, pairVars>>

CodecNext ==
  \/ CodecKeysToTokens
  \/ CodecTokensToKeys

SpecCodec == CodecInit /\ [][CodecNext]_vars

----------------------------------------------------------------------------
(* Specification SpecPair: two instances of CryptoBuiltInImpl, each with a   *)
(* local participant, the other's participant matched as remote, a local    *)
(* writer and reader, and the other's reader and writer matched to them.    *)
(* Each instance starts in the registry those six registration calls leave, *)
(* computed by the registration operators.  The peer encodes; this instance *)
(* receives the peer's key tokens, looks the sender of a message up and     *)
(* decodes it.                                                              *)

\* number of messages the peer encodes in one run
MaxSent == 1

EmptyRegistry ==
  [ next |-> 1, keys |-> EmptyMap, p2e |-> << >>, opts |-> EmptyMap, sess |-> EmptyMap ]

BothSigned == Attributes(TRUE, TRUE, 0)

\* the writer and the reader of an instance: properties and attributes
PairConfigs ==
  { << <<VolatileWriterProperties, BothEncrypted>>, <<VolatileReaderProperties, BothEncrypted>> >>,
    << <<NoProperties, BothEncrypted>>, <<NoProperties, BothEncrypted>> >>,
    << <<NoProperties, BothSigned>>, <<NoProperties, BothSigned>> >>,
    << <<NoProperties, SubmessageSigned>>, <<NoProperties, BothEncrypted>> >>,
    << <<NoProperties, SubmessageSigned>>, <<NoProperties, SubmessageSigned>> >> }

\* what RAND_bytes gives the keys of the peer's registrations
PeerRands ==
  [ salt1 |-> Fill(KEY_LEN_BYTES, 34), key1 |-> Fill(KEY_LEN_BYTES, 90),
    salt2 |-> Fill(KEY_LEN_BYTES, 90), key2 |-> Fill(KEY_LEN_BYTES, 34) ]
OwnRands == CHOOSE r \in RegRands : TRUE

\* the matched registrations, the remote reader first or the remote writer first
MatchedBoth(g, w, r, rp, readerFirst) ==
  IF readerFirst
  THEN LET m1 == register_matched_remote_datareader(g, w, rp, SharedSecret, TRUE)
           m2 == register_matched_remote_datawriter(m1.g, r, rp, SharedSecret, TRUE)
       IN  [ g |-> m2.g, remote_datareader |-> m1.handle, remote_datawriter |-> m2.handle ]
  ELSE LET m1 == register_matched_remote_datawriter(g, r, rp, SharedSecret, TRUE)
           m2 == register_matched_remote_datareader(m1.g, w, rp, SharedSecret, TRUE)
       IN  [ g |-> m2.g, remote_datareader |-> m2.handle, remote_datawriter |-> m1.handle ]

\* an instance after its six registrations, and the handles they returned
Instance(cfg, rnd, readerFirst) ==
  LET lp == register_local_participant(EmptyRegistry, Identity, Permissions, FALSE)
      rp == register_matched_remote_participant(lp.g, lp.handle, Identity, Permissions,
                                                SharedSecret)
      w == register_local_datawriter(rp.g, lp.handle, cfg[1][1], cfg[1][2], rnd)
      r == register_local_datareader(w.g, lp.handle, cfg[2][1], cfg[2][2], rnd)
      m == MatchedBoth(r.g, w.handle, r.handle, rp.handle, readerFirst)
  IN  [ g |-> m.g, participant |-> lp.handle, remote_participant |-> rp.handle,
        datawriter |-> w.handle, datareader |-> r.handle,
        remote_datareader |-> m.remote_datareader,
        remote_datawriter |-> m.remote_datawriter, sent |-> 0 ]

\* the callers' record of an instance's handles
IssuedBy(i) ==
  [ h \in 1..(i.g.next - 1) |->
      IF h = i.participant THEN "local participant"
      ELSE IF h = i.remote_participant THEN "remote participant"
      ELSE IF h = i.datawriter THEN "local datawriter"
      ELSE IF h = i.datareader THEN "local datareader"
      ELSE IF h = i.remote_datareader THEN "remote datareader"
      ELSE IF h = i.remote_datawriter THEN "remote datawriter"
      ELSE "key id" ]

PairStarts(own) ==
  /\ next_handle_ = own.g.next
  /\ keys_ = own.g.keys
  /\ participant_to_entity_ = own.g.p2e
  /\ encrypt_options_ = own.g.opts
  /\ sessions_ = own.g.sess
  /\ issuedAs = IssuedBy(own)
  /\ ret = [ op |-> "init" ]

PairInit ==
  /\ \E cfg \in PairConfigs, readerFirst \in BOOLEAN :
       /\ peer = Instance(cfg, PeerRands, TRUE)
       /\ PairStarts(Instance(cfg, OwnRands, readerFirst))
  /\ inflight = [ op |-> "init" ]
  /\ EngIdle /\ ConcIdle /\ CodecIdle

\* the one handle this instance holds of a kind
The(kind) == CHOOSE h \in Of(kind) : TRUE

\* a call that leaves the registry r.g returned
PairCalled(r, result) ==
  /\ Commit(r.g)
  /\ ret' = result
  /\ UNCHANGED <<issuedAs, engVars, concVars, codec>>

\* the peer's create_local_datawriter_crypto_tokens, and this instance's
\* set_remote_datawriter_crypto_tokens on what it returned
SetRemoteDatawriterCryptoTokens ==
  /\ PairCalled(set_remote_datawriter_crypto_tokens(
                  Registry, The("local datareader"), The("remote datawriter"),
                  create_local_datawriter_crypto_tokens(peer.g, peer.datawriter,
                                                        peer.remote_datareader).tokens),
                [ op |-> "set_remote_datawriter_crypto_tokens",
                  handle |-> The("remote datawriter"), prev |-> Registry ])
  /\ UNCHANGED pairVars

SetRemoteDatareaderCryptoTokens ==
  /\ PairCalled(set_remote_datareader_crypto_tokens(
                  Registry, The("local datawriter"), The("remote datareader"),
                  create_local_datareader_crypto_tokens(peer.g, peer.datareader,
                                                        peer.remote_datawriter).tokens),
                [ op |-> "set_remote_datareader_crypto_tokens",
                  handle |-> The("remote datareader"), prev |-> Registry ])
  /\ UNCHANGED pairVars

\* an encode call of the peer returned r
PeerEncoded(op, plain, r) ==
  /\ peer.sent < MaxSent
  /\ r.ok
  /\ peer' = [ peer EXCEPT !.g = r.g, !.sent = @ + 1 ]
  /\ inflight' = [ op |-> op, plain |-> plain, protected |-> r.protected, out |-> r.out,
                   handle |-> r.handle, key_idx |-> r.key_idx ]
  /\ UNCHANGED <<regVars, engVars, concVars, codec>>

PeerEncodeDatawriterSubmessage ==
  \E plain \in RegSubmessages, rid \in RegRandIds, riv \in RegRandIvs :
    PeerEncoded("encode_datawriter_submessage", plain,
                encode_datawriter_submessage(peer.g, plain, peer.datawriter,
                                             << peer.remote_datareader >>, 0, rid, riv))

PeerEncodeDatareaderSubmessage ==
  \E plain \in RegSubmessages, rid \in RegRandIds, riv \in RegRandIvs :
    PeerEncoded("encode_datareader_submessage", plain,
                encode_datareader_submessage(peer.g, plain, peer.datareader,
                                             << peer.remote_datawriter >>, rid, riv))

PeerEncodeSerializedPayload ==
  \E plain \in RegPayloads, rid \in RegRandIds, riv \in RegRandIvs :
    PeerEncoded("encode_serialized_payload", plain,
                encode_serialized_payload(peer.g, plain, peer.datawriter, rid, riv))

SubmessageEncodes == { "encode_datawriter_submessage", "encode_datareader_submessage" }

\* what may have been done to a buffer on its way: nothing, a bit of the tag
\* or of the data changed, or the transform identifier of its header replaced
\* by that of the volatile placeholder
PairTampers == Tampers \cup { "kind" }

\* the buffer a decode call is handed
Arrived(tamper) ==
  IF tamper = "none" THEN inflight.out
  ELSE IF tamper = "kind"
  THEN [ inflight.out EXCEPT
           !.header.transformation_kind = make_volatile_placeholder.transformation_kind,
           !.header.transformation_key_id = make_volatile_placeholder.sender_key_id ]
  ELSE Received(inflight.out, tamper)

\* the values a caller may hold in the reference parameters before the call
CallerOutputs ==
  { NilOutputs,
    [ category |-> DATAREADER_SUBMESSAGE, datawriter_crypto |-> MaxHandle + 90,
      datareader_crypto |-> MaxHandle + 91 ] }

\* the participants and the caller's outputs of a lookup: the message is
\* looked up under its sender, under this instance's own participant, and
\* with a nil handle for either participant
PreprocessArgs ==
  { [ receiving |-> The("local participant"), sending |-> p, out0 |-> o ] :
      p \in { The("remote participant"), The("local participant") }, o \in CallerOutputs }
    \cup { [ receiving |-> The("local participant"), sending |-> HANDLE_NIL,
             out0 |-> NilOutputs ],
           [ receiving |-> HANDLE_NIL, sending |-> The("remote participant"),
             out0 |-> NilOutputs ] }

PreprocessSecureSubmsg ==
  /\ inflight.op \in SubmessageEncodes
  /\ inflight.protected
  /\ \E a \in PreprocessArgs :
       ret' = [ op |-> "preprocess_secure_submsg", receiving |-> a.receiving,
                sending |-> a.sending, header |-> inflight.out.header, out0 |-> a.out0,
                r |-> preprocess_secure_submsg(Registry, a.out0, inflight.out.header,
                                               a.receiving, a.sending),
                prev |-> Registry ]
  /\ UNCHANGED <<next_handle_, keys_, participant_to_entity_, encrypt_options_, sessions_,
                 issuedAs, engVars, concVars, codec, pairVars>>

\* the handles a decode call is given as the sender: the matched remote
\* endpoints and the nil handle
SendingHandles == { The("remote datawriter"), The("remote datareader"), HANDLE_NIL }

\* a decode call on the buffer in flight returned r
PairDecoded(op, sending, tamper, r) ==
  /\ PairCalled(r, [ op |-> op, sending |-> sending, tamper |-> tamper,
                     encoded |-> Arrived(tamper), ok |-> r.ok, ex |-> r.ex, out |-> r.out,
                     sent |-> inflight, prev |-> Registry ])
  /\ UNCHANGED pairVars

DecodeDatawriterSubmessage ==
  /\ inflight.op = "encode_datawriter_submessage"
  /\ inflight.protected
  /\ \E sending \in SendingHandles, tamper \in PairTampers :
       PairDecoded("decode_datawriter_submessage", sending, tamper,
                   decode_datawriter_submessage(Registry, Arrived(tamper),
                                                The("local datareader"), sending))

DecodeDatareaderSubmessage ==
  /\ inflight.op = "encode_datareader_submessage"
  /\ inflight.protected
  /\ \E sending \in SendingHandles, tamper \in PairTampers :
       PairDecoded("decode_datareader_submessage", sending, tamper,
                   decode_datareader_submessage(Registry, Arrived(tamper),
                                                The("local datawriter"), sending))

DecodeSerializedPayload ==
  /\ inflight.op = "encode_serialized_payload"
  /\ \E sending \in SendingHandles, tamper \in PairTampers :
       /\ tamper # "none" => inflight.protected
       /\ PairDecoded("decode_serialized_payload", sending, tamper,
                      decode_serialized_payload(Registry, Arrived(tamper),
                                                The("local datareader"), sending))

\* a call that works on its arguments only
PairStateless(result) ==
  /\ ret' = result
  /\ UNCHANGED <<next_handle_, keys_, participant_to_entity_, encrypt_options_, sessions_,
                 issuedAs, engVars, concVars, codec, pairVars>>

\* the sender, the receiver list and the index of an encode_rtps_message call
RtpsEncodeArgs ==
  LET lp == The("local participant")
      rp == The("remote participant")
  IN  { << lp, << rp >>, 0 >>, << lp, << HANDLE_NIL, rp >>, 1 >>,
        << HANDLE_NIL, << rp >>, 0 >>, << lp, << >>, 0 >>, << lp, << rp >>, 1 >>,
        << lp, << rp >>, -1 >>, << lp, << HANDLE_NIL, rp >>, 0 >> }

EncodeRtpsMessage ==
  \E plain \in RegPayloads, a \in RtpsEncodeArgs :
    PairStateless([ op |-> "encode_rtps_message", plain |-> plain, sending |-> a[1],
                    list |-> a[2], index |-> a[3],
                    r |-> encode_rtps_message(plain, a[1], a[2], a[3]), prev |-> Registry ])

\* the receiver and the sender of a decode_rtps_message call
RtpsDecodeArgs ==
  { << The("local participant"), The("remote participant") >>,
    << HANDLE_NIL, The("remote participant") >>,
    << The("local participant"), HANDLE_NIL >> }

DecodeRtpsMessage ==
  \E encoded \in RegPayloads, a \in RtpsDecodeArgs :
    PairStateless([ op |-> "decode_rtps_message", encoded |-> encoded, receiving |-> a[1],
                    sending |-> a[2], r |-> decode_rtps_message(encoded, a[1], a[2]),
                    prev |-> Registry ])

PairNext ==
  \/ SetRemoteDatawriterCryptoTokens
  \/ SetRemoteDatareaderCryptoTokens
  \/ PeerEncodeDatawriterSubmessage
  \/ PeerEncodeDatareaderSubmessage
  \/ PeerEncodeSerializedPayload
  \/ PreprocessSecureSubmsg
  \/ DecodeDatawriterSubmessage
  \/ DecodeDatareaderSubmessage
  \/ DecodeSerializedPayload

SpecPair == PairInit /\ [][PairNext]_vars

----------------------------------------------------------------------------
(* Specification SpecBoth: the two instances of SpecPair, each encoding     *)
(* with its local writer and reader for the matched endpoint of the other;  *)
(* this instance looks up and decodes what the peer sent.                   *)

\* what RAND_bytes gives a session this instance creates
OwnRandIds == { <<9, 0, 0, 0>> }

\* an encode call of this instance returned r
OwnEncoded(op, sending, plain, r) ==
  /\ SessionsBounded(r.g)
  /\ PairCalled(r, [ op |-> op, sending |-> sending, plain |-> plain, ok |-> r.ok,
                     ex |-> r.ex, protected |-> r.protected, out |-> r.out,
                     handle |-> r.handle, key_idx |-> r.key_idx, prev |-> Registry ])
  /\ UNCHANGED pairVars

EncodeDatawriterSubmessageToPeer ==
  \E plain \in RegSubmessages, rid \in OwnRandIds, riv \in RegRandIvs :
    OwnEncoded("encode_datawriter_submessage", The("local datawriter"), plain,
               encode_datawriter_submessage(Registry, plain, The("local datawriter"),
                                            << The("remote datareader") >>, 0, rid, riv))

EncodeDatareaderSubmessageToPeer ==
  \E plain \in RegSubmessages, rid \in OwnRandIds, riv \in RegRandIvs :
    OwnEncoded("encode_datareader_submessage", The("local datareader"), plain,
               encode_datareader_submessage(Registry, plain, The("local datareader"),
                                            << The("remote datawriter") >>, rid, riv))

EncodeSerializedPayloadToPeer ==
  \E plain \in RegPayloads, rid \in OwnRandIds, riv \in RegRandIvs :
    OwnEncoded("encode_serialized_payload", The("local datawriter"), plain,
               encode_serialized_payload(Registry, plain, The("local datawriter"), rid, riv))

BothNext ==
  \/ EncodeDatawriterSubmessageToPeer
  \/ EncodeDatareaderSubmessageToPeer
  \/ EncodeSerializedPayloadToPeer
  \/ PeerEncodeDatawriterSubmessage
  \/ PeerEncodeDatareaderSubmessage
  \/ PeerEncodeSerializedPayload
  \/ PreprocessSecureSubmsg
  \/ DecodeDatawriterSubmessage
  \/ DecodeDatareaderSubmessage
  \/ DecodeSerializedPayload

SpecBoth == PairInit /\ [][BothNext]_vars

----------------------------------------------------------------------------
(* Specification SpecRtps: the participant-level operations on an instance  *)
(* as SpecPair starts it.  Further remote participants are matched, the     *)
(* participant tokens and the endpoint tokens of the peer are set, and      *)
(* whole RTPS messages are encoded and decoded.                             *)

\* number of remote participants an instance has matched
MaxRemotes == 2

MatchRemoteParticipant ==
  /\ Cardinality(Of("remote participant")) < MaxRemotes
  /\ \E secret \in SharedSecrets :
       LET r == register_matched_remote_participant(Registry, The("local participant"),
                                                    Identity, Permissions, secret)
       IN  /\ Commit(r.g)
           /\ ret' = [ op |-> "register_matched_remote_participant", handle |-> r.handle,
                       ex |-> r.ex, prev |-> Registry ]
           /\ issuedAs' = IssuedAfter(r.g, r.handle, "remote participant")
           /\ UNCHANGED <<engVars, concVars, codec, pairVars>>

\* the key lists a remote participant sends as tokens: one key, two keys
ParticipantKeyLists ==
  { << make_key(1, TRUE, Fill(KEY_LEN_BYTES, 17), Fill(KEY_LEN_BYTES, 165)) >>,
    << make_key(2, FALSE, Fill(KEY_LEN_BYTES, 34), Fill(KEY_LEN_BYTES, 90)),
       make_key(1, TRUE, Fill(KEY_LEN_BYTES, 17), Fill(KEY_LEN_BYTES, 165)) >> }

SetParticipantTokens ==
  \E remote \in Of("remote participant") \cup {HANDLE_NIL}, ks \in ParticipantKeyLists :
    /\ PairCalled(set_remote_participant_crypto_tokens(Registry, The("local participant"),
                                                       remote, keys_to_tokens(ks)),
                  [ op |-> "set_remote_participant_crypto_tokens", handle |-> remote,
                    tokens |-> keys_to_tokens(ks), prev |-> Registry ])
    /\ UNCHANGED pairVars

RtpsNext ==
  \/ MatchRemoteParticipant
  \/ SetParticipantTokens
  \/ SetRemoteDatawriterCryptoTokens
  \/ SetRemoteDatareaderCryptoTokens
  \/ EncodeRtpsMessage
  \/ DecodeRtpsMessage

SpecRtps == PairInit /\ [][RtpsNext]_vars

----------------------------------------------------------------------------
(* Claims *)

AES256_GCM == CRYPTO_TRANSFORMATION_KIND_AES256_GCM
AES256_GMAC == CRYPTO_TRANSFORMATION_KIND_AES256_GMAC

\* a + 1 modulo 2^(8 * Len(a)), the octet array a read as a little-endian integer
RECURSIVE IncLE(_)
IncLE(a) ==
  IF a = << >> THEN << >>
  ELSE IF Head(a) # 255 THEN << Head(a) + 1 >> \o Tail(a)
  ELSE << 0 >> \o IncLE(Tail(a))

\* C1, as stated: whenever the sender's key is a GCM key (encrypts() holds of
\* it), the receiver holding the same key material recovers the plaintext of
\* every message the sender encoded, whatever it decoded before.
C1_RoundTripAnyGcmKey ==
  (res.op = "decrypt" /\ res.tamper = "none" /\ encrypts(master)) =>
    (res.ok /\ res.out = wire[res.msg].plain)

\* C1, as amended: whenever the sender's key is an AES256_GCM key, the
\* receiver holding the same key material recovers exactly the plaintext of
\* every message the sender encoded, before or after session rotations and in
\* any order of decoding.
C1_RoundTripAes256Gcm ==
  (res.op = "decrypt" /\ res.tamper = "none" /\ AlgOf(master) = AES256_GCM) =>
    (res.ok /\ res.out = wire[res.msg].plain)

\* a message of the first session is decoded after the sender rotated and
\* after the receiver had decoded a message of the second session
C1_Witness ==
  /\ res.op = "decrypt" /\ res.tamper = "none" /\ AlgOf(master) = AES256_GCM
  /\ res.ok /\ res.out = wire[res.msg].plain /\ res.out.len > 0
  /\ wire[res.msg].epoch = 1
  /\ wire[Len(wire)].epoch = 2
  /\ res.prev.key_ # << >>
  /\ res.prev.id_ = wire[Len(wire)].header.session_id

\* C2, as stated: whenever the sender's key is a GMAC key (authenticates()
\* holds of it), verify accepts the header and tag authtag produced and
\* outputs the plaintext, and rejects the message when one bit of the tag or
\* of the plaintext is changed.
C2_VerifyAnyGmacKey ==
  (res.op = "verify" /\ authenticates(master)) =>
    /\ res.tamper = "none" => (res.ok /\ res.out = wire[res.msg].plain)
    /\ res.tamper # "none" => ~res.ok

\* C2, as amended: whenever the sender's key is an AES256_GMAC key, verify
\* accepts the header and tag authtag produced and outputs the plaintext, and
\* rejects the message when one bit of the tag or of the plaintext is changed.
C2_VerifyAes256Gmac ==
  (res.op = "verify" /\ AlgOf(master) = AES256_GMAC) =>
    /\ res.tamper = "none" => (res.ok /\ res.out = wire[res.msg].plain)
    /\ res.tamper # "none" => ~res.ok

\* verify rejected a message whose plaintext has one bit changed, after it
\* had accepted a message of the same session
C2_Witness ==
  /\ res.op = "verify" /\ AlgOf(master) = AES256_GMAC
  /\ res.tamper = "data" /\ ~res.ok
  /\ res.prev.key_ # << >>
  /\ res.prev.id_ = wire[res.msg].header.session_id

\* C4: two distinct messages encoded in the same session (no rotation between
\* them) carry different iv_suffix values, and each non-rotating encode sets
\* iv_suffix to the previous value plus one modulo 2^64, read as a 64-bit
\* little-endian integer.
C4_IvSuffixIncrements ==
  /\ \A i, j \in 1..Len(wire) :
       (i # j /\ wire[i].epoch = wire[j].epoch) =>
         wire[i].header.initialization_vector_suffix #
           wire[j].header.initialization_vector_suffix
  /\ (res.op \in {"encrypt", "authtag"} /\ res.branch = "advance") =>
       res.header.initialization_vector_suffix = IncLE(res.prev.iv_suffix_)

\* C3: in a run of one-block messages from a fresh session, messages 1 to
\* 1024 carry the session_id of the first, and message 1025 carries that id
\* plus one (as a 32-bit little-endian integer) and is protected with the
\* session key derived for the new id.
C3_RotatesAtMessage1025 ==
  res.op = "encode" =>
    /\ res.n <= MAX_BLOCKS_PER_SESSION => res.header.session_id = res.first
    /\ res.n = MAX_BLOCKS_PER_SESSION + 1 =>
         /\ res.header.session_id = IncLE(res.first)
         /\ res.key = derive_key(master, IncLE(res.first))


UnregisterEndpointOps == { "unregister_datawriter", "unregister_datareader" }

\* C5: after unregister_datawriter(H) or unregister_datareader(H) returns,
\* keys_ and encrypt_options_ have no entry for H, participant_to_entity_ has
\* no pair whose entity handle is H, and sessions_ has no entry (H, i); the
\* entries of every other handle, in all four maps, are the ones from before
\* the call.
C5_UnregisterEndpointClears ==
  [][ ret'.op \in UnregisterEndpointOps =>
        /\ ~Has(keys_', ret'.handle)
        /\ ~Has(encrypt_options_', ret'.handle)
        /\ \A i \in 1..Len(participant_to_entity_') :
             participant_to_entity_'[i].entity.handle_ # ret'.handle
        /\ \A k \in DOMAIN sessions_' : k[1] # ret'.handle
        /\ DOMAIN keys_' = (DOMAIN keys_) \ {ret'.handle}
        /\ \A h \in DOMAIN keys_' : keys_'[h] = keys_[h]
        /\ DOMAIN encrypt_options_' = (DOMAIN encrypt_options_) \ {ret'.handle}
        /\ \A h \in DOMAIN encrypt_options_' : encrypt_options_'[h] = encrypt_options_[h]
        /\ participant_to_entity_' =
             SelectSeq(participant_to_entity_, LAMBDA x : x.entity.handle_ # ret'.handle)
        /\ DOMAIN sessions_' = { k \in DOMAIN sessions_ : k[1] # ret'.handle }
        /\ \A k \in DOMAIN sessions_' : sessions_'[k] = sessions_[k]
    ]_vars

\* a writer that held keys, options, a pair and a session was unregistered,
\* while another handle keeps its session
C5_Witness ==
  /\ ret.op = "unregister_datawriter"
  /\ ret.ok
  /\ ret.held.keys /\ ret.held.opts /\ ret.held.p2e /\ ret.held.sess
  /\ \E k \in DOMAIN sessions_ : k[1] # ret.handle
  /\ \E h \in DOMAIN keys_ : h # ret.handle

\* C6: after unregister_participant(P) returns true, no map entry keyed by P
\* remains: keys_ has no entry for P, participant_to_entity_ has no entry
\* under P, and encrypt_options_ and sessions_ have no entry for P.
C6_UnregisterParticipantClears ==
  (ret.op = "unregister_participant" /\ ret.ok) =>
    /\ ~Has(keys_, ret.handle)
    /\ \A i \in 1..Len(participant_to_entity_) :
         participant_to_entity_[i].participant # ret.handle
    /\ ~Has(encrypt_options_, ret.handle)
    /\ \A k \in DOMAIN sessions_ : k[1] # ret.handle

BothProtected(attrs) == attrs.is_submessage_protected /\ attrs.is_payload_protected

\* the key list stored under the handle has exactly two keys, with different
\* sender_key_id values
TwoDistinctKeys(handle) ==
  /\ Has(keys_, handle)
  /\ Len(keys_[handle]) = 2
  /\ keys_[handle][1].sender_key_id # keys_[handle][2].sender_key_id

\* C8 as stated: register_local_datawriter called with both
\* submessage_protected and payload_protected set stores under the returned
\* handle a key list of exactly two keys whose sender_key_id values differ.
C8_BothFlagsTwoKeys ==
  (ret.op = "register_local_datawriter" /\ BothProtected(ret.args.attrs)) =>
    TwoDistinctKeys(ret.handle)

\* C8: register_local_datawriter called with a participant handle other than
\* HANDLE_NIL, with properties that do not name a built-in volatile endpoint,
\* and with both submessage_protected and payload_protected set, stores under
\* the returned handle a key list of exactly two keys whose sender_key_id
\* values differ.
C8_BothFlagsTwoKeysNonVolatile ==
  ( /\ ret.op = "register_local_datawriter"
    /\ BothProtected(ret.args.attrs)
    /\ ret.args.participant # HANDLE_NIL
    /\ ~is_builtin_volatile(ret.args.properties) ) =>
    TwoDistinctKeys(ret.handle)

C8_Witness ==
  /\ ret.op = "register_local_datawriter"
  /\ BothProtected(ret.args.attrs)
  /\ ret.args.participant # HANDLE_NIL
  /\ ~is_builtin_volatile(ret.args.properties)
  /\ ret.handle # HANDLE_NIL
  /\ Len(keys_[ret.handle]) = 2

EncodeOps == { "encode_serialized_payload", "encode_datawriter_submessage",
               "encode_datareader_submessage" }

\* a receiver's registry in which the entity holds the key list under the
\* participant, behind another entity of that participant with another key
ReceiverRegistry(participant, entity, keyseq, other, otherKeys) ==
  [ next |-> 1,
    keys |-> Put(Put(EmptyMap, other, otherKeys), entity, keyseq),
    p2e |-> MultiInsert(MultiInsert(<< >>, participant,
                                    EntityInfo(DATAREADER_SUBMESSAGE, other)),
                        participant, EntityInfo(DATAWRITER_SUBMESSAGE, entity)),
    opts |-> EmptyMap,
    sess |-> EmptyMap ]

OtherKeys == << make_key(9, TRUE, Fill(KEY_LEN_BYTES, 5), Fill(KEY_LEN_BYTES, 6)) >>

\* the lookup on the receiver's registry finds the entity, by the key
LookupFinds(g, header, participant, entity, key) ==
  /\ preprocess_secure_submsg(g, NilOutputs, header, 1, participant).ok
  /\ preprocess_secure_submsg(g, NilOutputs, header, 1, participant).datawriter_crypto = entity
  /\ FirstMatch(g, EqualRange(g.p2e, participant), header).found
  /\ g.keys[entity][FirstMatch(g, EqualRange(g.p2e, participant), header).key_idx + 1] = key

\* C9: every protected output of encode_serialized_payload,
\* encode_datawriter_submessage and encode_datareader_submessage carries a
\* CryptoHeader whose transformation_kind and transformation_key_id equal the
\* transformation_kind and sender_key_id of the key that protected the
\* message, so the sender lookup, run on a registry in which the sending
\* entity holds that key under the sending participant, matches that key.
C9_HeaderNamesProtectingKey ==
  (ret.op \in EncodeOps /\ ret.protected) =>
    /\ ret.out.header.transformation_kind = ret.key.transformation_kind
    /\ ret.out.header.transformation_key_id = ret.key.sender_key_id
    /\ matches(ret.key, ret.out.header)
    /\ LookupFinds(ReceiverRegistry(2, 3, keys_[ret.handle], 4, OtherKeys),
                   ret.out.header, 2, 3, ret.key)

\* a payload was protected by the second key of a writer's list
C9_Witness ==
  /\ ret.op = "encode_serialized_payload"
  /\ ret.protected
  /\ ret.key_idx = 1
  /\ ret.out.header.transformation_key_id = ret.key.sender_key_id


\* C7: across any sequence and any interleaving of concurrent register_*
\* calls, every handle returned by a registration and every sender_key_id
\* allocated for a payload key is non-zero and different from every other
\* handle or key id the instance issued earlier or concurrently.
C7_HandlesUnique ==
  /\ \A i \in 1..Len(issued) : issued[i].h # HANDLE_NIL
  /\ \A i \in 1..Len(issued) : \A j \in 1..Len(issued) :
       i # j => issued[i].h # issued[j].h
  /\ \A h \in DOMAIN keys_ : \A i \in 1..Len(keys_[h]) : \A j \in 1..Len(keys_[h]) :
       i # j => keys_[h][i].sender_key_id # keys_[h][j].sender_key_id

\* a writer registration waits for the mutex between its two allocations
\* while the other thread, which was issued a value before, is inside
\* generate_handle
C7_Witness ==
  \E t \in Threads : \E u \in Threads \ {t} :
    /\ pc[t] = "lock"
    /\ Len(loc[t].got) = 1
    /\ pc[u] \in { "read", "write", "unlock" }
    /\ \E i \in 1..Len(issued) : issued[i].by = u

\* C10: for every key material m, tokens_to_keys(keys_to_tokens([m])) equals
\* [m] field for field, and for every list of key materials the round trip
\* returns the same keys in the same order and with the same length.
C10_TokenRoundTrip ==
  codec.op = "tokens_to_keys" =>
    /\ Len(codec.tokens) = Len(codec.keys)
    /\ Len(codec.back) = Len(codec.keys)
    /\ \A i \in 1..Len(codec.keys) :
         /\ codec.back[i].transformation_kind = codec.keys[i].transformation_kind
         /\ codec.back[i].master_salt = codec.keys[i].master_salt
         /\ codec.back[i].sender_key_id = codec.keys[i].sender_key_id
         /\ codec.back[i].master_sender_key = codec.keys[i].master_sender_key
         /\ codec.back[i].receiver_specific_key_id = codec.keys[i].receiver_specific_key_id
         /\ codec.back[i].master_receiver_specific_key
              = codec.keys[i].master_receiver_specific_key

\* two different keys, whose octet sequences need alignment, came back
C10_Witness ==
  /\ codec.op = "tokens_to_keys"
  /\ Len(codec.keys) = 2
  /\ codec.keys[1] # codec.keys[2]
  /\ Len(codec.keys[1].master_salt) % 4 # 0
  /\ codec.back = codec.keys


\* the four maps are the ones the last operation was called on
MapsUnchanged ==
  /\ keys_ = ret.prev.keys
  /\ participant_to_entity_ = ret.prev.p2e
  /\ encrypt_options_ = ret.prev.opts
  /\ sessions_ = ret.prev.sess

\* C13: register_local_participant returns HANDLE_NIL with error code -1,
\* minor code 0, when the identity handle is nil, the permissions handle is
\* nil or is_rtps_protected is true, and then leaves next_handle_ and the four
\* maps unchanged; otherwise it returns a handle that is not nil and was not
\* issued before, and stores no key material.
C13_RegisterLocalParticipant ==
  ret.op = "register_local_participant" =>
    IF \/ ret.args.identity = HANDLE_NIL
       \/ ret.args.permissions = HANDLE_NIL
       \/ ret.args.is_rtps_protected
    THEN /\ ret.handle = HANDLE_NIL
         /\ ret.ex.code = -1 /\ ret.ex.minor_code = 0
         /\ next_handle_ = ret.prev.next
         /\ MapsUnchanged
    ELSE /\ ret.handle # HANDLE_NIL
         /\ ret.handle >= ret.prev.next
         /\ \A h \in DOMAIN issuedAs : h # ret.handle => h < ret.handle
         /\ ret.ex = NoError
         /\ keys_ = ret.prev.keys
         /\ ~Has(keys_, ret.handle)

\* a call with a nil permissions handle failed after a participant had been
\* registered and held entities
C13_Witness ==
  /\ ret.op = "register_local_participant"
  /\ ret.args.identity # HANDLE_NIL
  /\ ret.args.permissions = HANDLE_NIL
  /\ ~ret.args.is_rtps_protected
  /\ ret.handle = HANDLE_NIL
  /\ keys_ # EmptyMap


\* the little-endian 4-octet encoding of a handle value
LittleEndian4(n) ==
  << n % 256, (n \div 256) % 256, (n \div 65536) % 256, (n \div 16777216) % 256 >>

RegisterOps ==
  { "register_local_participant", "register_matched_remote_participant",
    "register_local_datawriter", "register_local_datareader",
    "register_matched_remote_datareader", "register_matched_remote_datawriter" }

\* a local writer that is not a built-in volatile endpoint was registered
NonVolatileWriterRegistered ==
  /\ ret.op = "register_local_datawriter"
  /\ ret.handle # HANDLE_NIL
  /\ ~is_builtin_volatile(ret.args.properties)

\* C14: for a local writer that is not volatile, registered under handle H,
\* the submessage key, when generated, is at index 0 and its sender_key_id is
\* the little-endian encoding of H; the payload key, when generated, is the
\* last element of the list, and its sender_key_id is the encoding of H when
\* no submessage key was generated, and otherwise the encoding of a handle
\* value issued for it, which differs from H; no registration returns a
\* handle value that was issued as a key id.
C14_WriterKeyIds ==
  /\ NonVolatileWriterRegistered =>
        LET H == ret.handle
            ks == keys_[H]
            sub == ret.args.attrs.is_submessage_protected
            pay == ret.args.attrs.is_payload_protected
        IN  /\ Len(ks) = (IF sub THEN 1 ELSE 0) + (IF pay THEN 1 ELSE 0)
            /\ sub => ks[1].sender_key_id = LittleEndian4(H)
            /\ (pay /\ ~sub) => ks[Len(ks)].sender_key_id = LittleEndian4(H)
            /\ (pay /\ sub) =>
                  \E x \in DOMAIN issuedAs :
                    /\ x # H
                    /\ issuedAs[x] = "key id"
                    /\ ks[Len(ks)].sender_key_id = LittleEndian4(x)
  /\ (ret.op \in RegisterOps /\ ret.handle # HANDLE_NIL) =>
        issuedAs[ret.handle] # "key id"

\* a writer holds a submessage key and a payload key, and a later
\* registration returned a handle
C14_Witness ==
  /\ ret.op = "register_local_datareader"
  /\ ret.handle # HANDLE_NIL
  /\ \E w \in Of("local datawriter") :
       /\ w < ret.handle
       /\ Has(keys_, w)
       /\ Len(keys_[w]) = 2
       /\ keys_[w][1].sender_key_id = LittleEndian4(w)
       /\ keys_[w][2].sender_key_id = LittleEndian4(w + 1)


\* the properties name a built-in volatile endpoint
NamesVolatileEndpoint(props) ==
  \E i \in 1..Len(props) :
    /\ props[i].name = "dds.sec.builtin_endpoint_name"
    /\ props[i].value \in { "BuiltinParticipantVolatileMessageSecureWriter",
                            "BuiltinParticipantVolatileMessageSecureReader" }

LocalEndpointOps == { "register_local_datawriter", "register_local_datareader" }

\* the transformation kind of a generated key: three zero octets, then
\* AES256_GCM when the flag is set in the mask and AES256_GMAC otherwise
KindFor(mask, flag) ==
  << 0, 0, 0, IF (mask \div flag) % 2 = 1 THEN AES256_GCM ELSE AES256_GMAC >>

\* C15: every key generated by register_local_datawriter or
\* register_local_datareader has a transformation kind whose first three
\* octets are zero and whose last octet is AES256_GCM exactly when the plugin
\* attribute flag of the key is set (FLAG_IS_SUBMESSAGE_ENCRYPTED for the
\* submessage key, FLAG_IS_PAYLOAD_ENCRYPTED for the payload key) and
\* AES256_GMAC otherwise.
C15_GeneratedKeyKinds ==
  ( /\ ret.op \in LocalEndpointOps
    /\ ret.handle # HANDLE_NIL
    /\ ~NamesVolatileEndpoint(ret.args.properties) ) =>
    LET ks == keys_[ret.handle]
        mask == ret.args.attrs.plugin_endpoint_attributes
        sub == ret.args.attrs.is_submessage_protected
        pay == ret.op = "register_local_datawriter" /\ ret.args.attrs.is_payload_protected
    IN  /\ Len(ks) = (IF sub THEN 1 ELSE 0) + (IF pay THEN 1 ELSE 0)
        /\ sub => ks[1].transformation_kind = KindFor(mask, FLAG_IS_SUBMESSAGE_ENCRYPTED)
        /\ pay => ks[Len(ks)].transformation_kind = KindFor(mask, FLAG_IS_PAYLOAD_ENCRYPTED)

\* a reader whose mask has only the payload flag got an AES256_GMAC
\* submessage key, beside a writer that holds a GMAC and a GCM key
C15_Witness ==
  /\ ret.op = "register_local_datareader"
  /\ ret.handle # HANDLE_NIL
  /\ ret.args.attrs = SignedThenEncrypted
  /\ ~NamesVolatileEndpoint(ret.args.properties)
  /\ keys_[ret.handle][1].transformation_kind = << 0, 0, 0, AES256_GMAC >>
  /\ \E w \in Of("local datawriter") :
       /\ Has(keys_, w)
       /\ Len(keys_[w]) = 2
       /\ keys_[w][1].transformation_kind = << 0, 0, 0, AES256_GMAC >>
       /\ keys_[w][2].transformation_kind = << 0, 0, 0, AES256_GCM >>

\* the volatile placeholder: the vendor's transformation kind, no salt, no
\* key, key ids of zero
Placeholder ==
  [ transformation_kind |-> << VENDOR_A, VENDOR_B, 0, 1 >>,
    master_salt |-> << >>,
    sender_key_id |-> << 0, 0, 0, 0 >>,
    master_sender_key |-> << >>,
    receiver_specific_key_id |-> << 0, 0, 0, 0 >>,
    master_receiver_specific_key |-> << >> ]

\* C16: when the properties passed to register_local_datawriter or
\* register_local_datareader name a built-in volatile endpoint, the key list
\* stored under the new handle is exactly one element, the volatile
\* placeholder, whatever the protection attributes are.
C16_VolatilePlaceholder ==
  ( /\ ret.op \in LocalEndpointOps
    /\ ret.handle # HANDLE_NIL
    /\ NamesVolatileEndpoint(ret.args.properties) ) =>
    /\ Has(keys_, ret.handle)
    /\ keys_[ret.handle] = << Placeholder >>

\* a volatile reader without protection was registered beside a volatile
\* writer with both protections
C16_Witness ==
  /\ ret.op = "register_local_datareader"
  /\ ret.handle # HANDLE_NIL
  /\ NamesVolatileEndpoint(ret.args.properties)
  /\ ret.args.attrs = Unprotected
  /\ keys_[ret.handle] = << Placeholder >>
  /\ \E w \in Of("local datawriter") :
       /\ Has(keys_, w)
       /\ keys_[w] = << Placeholder >>
       /\ encrypt_options_[w].submessage_ /\ encrypt_options_[w].payload_


MatchedOps == { "register_matched_remote_datareader", "register_matched_remote_datawriter" }

\* the sequence without its element at position i
Without(seq, i) == SubSeq(seq, 1, i - 1) \o SubSeq(seq, i + 1, Len(seq))

\* the participant/entity relation gained exactly the pair (p, (category, h))
GainedEntity(p, category, h) ==
  \E i \in 1..Len(participant_to_entity_) :
    /\ participant_to_entity_[i].participant = p
    /\ participant_to_entity_[i].entity.category_ = category
    /\ participant_to_entity_[i].entity.handle_ = h
    /\ Without(participant_to_entity_, i) = ret.prev.p2e

\* the key of a matched volatile endpoint: AES256_GCM, derived from the
\* challenges and the secret of the handshake
DerivedFrom(secret) ==
  [ transformation_kind |-> << 0, 0, 0, AES256_GCM >>,
    master_salt |-> hkdf(secret.challenge1, "keyexchange salt", secret.challenge2,
                         secret.sharedSecret, TRUE),
    sender_key_id |-> << 0, 0, 0, 0 >>,
    master_sender_key |-> hkdf(secret.challenge2, "key exchange key", secret.challenge1,
                               secret.sharedSecret, TRUE),
    receiver_specific_key_id |-> << 0, 0, 0, 0 >>,
    master_receiver_specific_key |-> << >> ]

\* C17: when register_matched_remote_datareader(W, P, secret) succeeds with
\* handle h: if the key list of W is exactly the volatile placeholder, keys[h]
\* is one AES256_GCM key derived from the secret and the list of W is
\* unchanged; otherwise keys has no entry for h; in both cases the
\* participant/entity relation gains (P, (DATAREADER_SUBMESSAGE, h)) and
\* encrypt_options[h] is a copy of the options of W.  The same holds of
\* register_matched_remote_datawriter, with a local reader and
\* DATAWRITER_SUBMESSAGE.
C17_MatchedRemoteEndpoint ==
  (ret.op \in MatchedOps /\ ret.handle # HANDLE_NIL) =>
    LET h == ret.handle
        W == ret.args.local
    IN  /\ IF ret.prev.keys[W] = << Placeholder >>
           THEN /\ Has(keys_, h)
                /\ keys_[h] = << DerivedFrom(ret.args.secret) >>
                /\ keys_[W] = << Placeholder >>
           ELSE /\ ~Has(keys_, h)
                /\ keys_ = ret.prev.keys
        /\ GainedEntity(ret.args.participant,
                        IF ret.op = "register_matched_remote_datareader"
                        THEN "DATAREADER_SUBMESSAGE" ELSE "DATAWRITER_SUBMESSAGE", h)
        /\ Has(encrypt_options_, h)
        /\ encrypt_options_[h] = ret.prev.opts[W]
        /\ encrypt_options_[W] = ret.prev.opts[W]

\* a remote reader was matched to a volatile writer whose options are both
\* set: it holds the derived key and the options, the writer its placeholder
C17_Witness ==
  /\ ret.op = "register_matched_remote_datareader"
  /\ ret.handle # HANDLE_NIL
  /\ ret.prev.keys[ret.args.local] = << Placeholder >>
  /\ Has(keys_, ret.handle)
  /\ keys_[ret.handle] = << DerivedFrom(SharedSecret) >>
  /\ keys_[ret.args.local] = << Placeholder >>
  /\ encrypt_options_[ret.handle].submessage_
  /\ encrypt_options_[ret.handle].payload_
  /\ GainedEntity(ret.args.participant, "DATAREADER_SUBMESSAGE", ret.handle)

\* C18: a failing register_matched_remote_datareader or
\* register_matched_remote_datawriter (a nil handle or a null secret, a local
\* handle absent from keys, an empty volatile derivation) returns the nil
\* handle with code -1 and minor code 0 and adds no entry to keys, to the
\* participant/entity relation, to encrypt_options or to sessions; and the
\* call fails in each of the first four cases.
C18_MatchedRemoteFailure ==
  ret.op \in MatchedOps =>
    /\ ( \/ ret.args.local = HANDLE_NIL
         \/ ret.args.participant = HANDLE_NIL
         \/ ret.args.secret.null
         \/ ~Has(ret.prev.keys, ret.args.local) ) => ret.handle = HANDLE_NIL
    /\ ret.handle = HANDLE_NIL =>
         /\ ret.ex.code = -1
         /\ ret.ex.minor_code = 0
         /\ DOMAIN keys_ \subseteq DOMAIN ret.prev.keys
         /\ Len(participant_to_entity_) <= Len(ret.prev.p2e)
         /\ \A i \in 1..Len(participant_to_entity_) :
              \E j \in 1..Len(ret.prev.p2e) : participant_to_entity_[i] = ret.prev.p2e[j]
         /\ DOMAIN encrypt_options_ \subseteq DOMAIN ret.prev.opts
         /\ DOMAIN sessions_ \subseteq DOMAIN ret.prev.sess

\* the derivation of the volatile key failed: the handle was consumed, the
\* local writer holds the placeholder, and nothing was recorded
C18_Witness ==
  /\ ret.op = "register_matched_remote_datareader"
  /\ ret.handle = HANDLE_NIL
  /\ ret.args.local # HANDLE_NIL
  /\ ret.args.participant # HANDLE_NIL
  /\ ~ret.args.secret.null
  /\ Has(keys_, ret.args.local)
  /\ keys_[ret.args.local] = << Placeholder >>
  /\ next_handle_ > ret.prev.next
  /\ MapsUnchanged


\* the sending writer of the last call had no payload key: no keys entry, an
\* empty key list, or payload protection switched off
NoPayloadKey ==
  \/ ~Has(ret.prev.keys, ret.sending)
  \/ Len(ret.prev.keys[ret.sending]) = 0
  \/ ~Has(ret.prev.opts, ret.sending)
  \/ ~ret.prev.opts[ret.sending].payload_

\* C20: encode_serialized_payload returns success with the output equal to
\* the input, and creates or advances no session, whenever the sending writer
\* has no keys entry, has an empty key list, or has payload protection off.
C20_PayloadPassThrough ==
  (ret.op = "encode_serialized_payload" /\ NoPayloadKey) =>
    /\ ret.ok
    /\ ret.ex = NoError
    /\ ret.out = ret.plain
    /\ sessions_ = ret.prev.sess

\* a writer that signs its submessages only passed a payload through, after
\* its submessage key had opened a session, which is as it was
C20_Witness ==
  /\ ret.op = "encode_serialized_payload"
  /\ Has(ret.prev.keys, ret.sending)
  /\ Len(ret.prev.keys[ret.sending]) = 1
  /\ ~ret.prev.opts[ret.sending].payload_
  /\ ret.ok
  /\ ret.out = ret.plain
  /\ Has(sessions_, << ret.sending, 0 >>)
  /\ sessions_ = ret.prev.sess


\* the positions, in the participant/entity relation the lookup ran on, of
\* the entities under the sending participant that hold a key whose
\* transformation_kind and sender_key_id are the header's transform identifier
Holders ==
  { i \in 1..Len(ret.prev.p2e) :
      /\ ret.prev.p2e[i].participant = ret.sending
      /\ Has(ret.prev.keys, ret.prev.p2e[i].entity.handle_)
      /\ \E n \in 1..Len(ret.prev.keys[ret.prev.p2e[i].entity.handle_]) :
           LET k == ret.prev.keys[ret.prev.p2e[i].entity.handle_][n]
           IN  /\ k.transformation_kind = ret.header.transformation_kind
               /\ k.sender_key_id = ret.header.transformation_key_id }

\* the lookup returned what the holders of a matching key determine
LookupAgrees ==
  /\ ret.r.ok <=> Holders # {}
  /\ Holders # {} =>
       LET e == ret.prev.p2e[CHOOSE i \in Holders : \A j \in Holders : i <= j].entity
       IN  /\ ret.r.category = e.category_
           /\ e.category_ = "DATAWRITER_SUBMESSAGE" =>
                /\ ret.r.datawriter_crypto = e.handle_
                /\ ret.r.datareader_crypto = ret.out0.datareader_crypto
           /\ e.category_ = "DATAREADER_SUBMESSAGE" =>
                /\ ret.r.datareader_crypto = e.handle_
                /\ ret.r.datawriter_crypto = ret.out0.datawriter_crypto
  /\ Holders = {} =>
       /\ ret.r.ex.code = -2
       /\ ret.r.ex.minor_code = 1
       /\ ret.r.category = ret.out0.category
       /\ ret.r.datawriter_crypto = ret.out0.datawriter_crypto
       /\ ret.r.datareader_crypto = ret.out0.datareader_crypto
       /\ next_handle_ = ret.prev.next
       /\ MapsUnchanged

\* C19 as stated: preprocess_secure_submsg succeeds exactly when some entity
\* registered under the sending participant holds a key whose
\* transformation_kind and sender_key_id equal the header's transform
\* identifier; it then returns the first such entity in enumeration order,
\* sets the category to the entity's kind and only the matching output
\* handle; otherwise it fails with code -2 minor 1 and changes nothing.
C19_PreprocessLookup ==
  ret.op = "preprocess_secure_submsg" => LookupAgrees

\* C19, amended: the same, of the calls whose receiving and sending
\* participant handles are both non-nil.
C19_PreprocessLookupNonNil ==
  ( /\ ret.op = "preprocess_secure_submsg"
    /\ ret.receiving # HANDLE_NIL
    /\ ret.sending # HANDLE_NIL ) => LookupAgrees

\* the message of the peer's writer was looked up under the peer: the remote
\* reader, registered first, holds the peer reader's key only, and the remote
\* writer was returned, the caller's reader handle left as it was
C19_Witness ==
  /\ ret.op = "preprocess_secure_submsg"
  /\ ret.sending = The("remote participant")
  /\ ret.receiving # HANDLE_NIL
  /\ ret.r.ok
  /\ The("remote datareader") < The("remote datawriter")
  /\ Has(keys_, The("remote datareader"))
  /\ keys_[The("remote datareader")] # << >>
  /\ ret.r.category = "DATAWRITER_SUBMESSAGE"
  /\ ret.r.datawriter_crypto = The("remote datawriter")
  /\ ret.out0.datareader_crypto # HANDLE_NIL
  /\ ret.r.datareader_crypto = ret.out0.datareader_crypto

\* the header's transform identifier is that of a key of this instance's own
\* writer, an entity of another participant than the sending one: the lookup
\* under the peer, whose tokens have not arrived, fails
C19_WitnessOtherParticipant ==
  /\ ret.op = "preprocess_secure_submsg"
  /\ ret.sending = The("remote participant")
  /\ ret.receiving # HANDLE_NIL
  /\ ~ret.r.ok
  /\ ret.r.ex.code = -2
  /\ \E n \in 1..Len(keys_[The("local datawriter")]) :
       /\ keys_[The("local datawriter")][n].transformation_kind
            = ret.header.transformation_kind
       /\ keys_[The("local datawriter")][n].sender_key_id
            = ret.header.transformation_key_id


\* the registry g is that of an instance whose volatile writer and reader
\* were matched with the peer's: the local writer holds the placeholder, the
\* matched remote reader and writer the key derived from the shared secret
VolatileMatched(g) ==
  /\ Has(g.keys, The("local datawriter"))
  /\ g.keys[The("local datawriter")] = << Placeholder >>
  /\ Has(g.keys, The("local datareader"))
  /\ g.keys[The("local datareader")] = << Placeholder >>
  /\ Has(g.keys, The("remote datareader"))
  /\ g.keys[The("remote datareader")] = << DerivedFrom(SharedSecret) >>
  /\ Has(g.keys, The("remote datawriter"))
  /\ g.keys[The("remote datawriter")] = << DerivedFrom(SharedSecret) >>

\* the submessage in flight was encoded by the peer's volatile writer for
\* its single matched remote reader
FromVolatileWriter ==
  /\ inflight.op = "encode_datawriter_submessage"
  /\ inflight.protected
  /\ inflight.handle = peer.remote_datareader
  /\ peer.g.keys[peer.datawriter] = << Placeholder >>

\* the lookup of such a submessage under the peer returns the matched
\* remote writer
C12_MatchedToRemoteWriter ==
  ( /\ ret.op = "preprocess_secure_submsg"
    /\ ret.receiving = The("local participant")
    /\ ret.sending = The("remote participant")
    /\ VolatileMatched(ret.prev)
    /\ FromVolatileWriter ) =>
    /\ ret.r.ok
    /\ ret.r.category = "DATAWRITER_SUBMESSAGE"
    /\ ret.r.datawriter_crypto = The("remote datawriter")

\* such a submessage, decoded as sent by the matched remote writer, gives
\* the plaintext the peer encoded
C12_DecodedToPlaintext ==
  ( /\ ret.op = "decode_datawriter_submessage"
    /\ ret.sending = The("remote datawriter")
    /\ ret.tamper = "none"
    /\ VolatileMatched(ret.prev)
    /\ FromVolatileWriter ) =>
    /\ ret.ok
    /\ ret.out = inflight.plain

\* C12: when two instances each register a built-in volatile writer and
\* reader and match them with the same sharedSecret, challenge1 and
\* challenge2, a one-block submessage encoded by one instance's volatile
\* writer for the single matched remote reader is matched by the other
\* instance's preprocess_secure_submsg to the matched remote writer, and is
\* decoded to the original plaintext.
C12_VolatileRoundTrip == C12_MatchedToRemoteWriter /\ C12_DecodedToPlaintext


DecodeOps ==
  { "decode_datawriter_submessage", "decode_datareader_submessage",
    "decode_serialized_payload" }

RegistryUnchanged == next_handle_ = ret.prev.next /\ MapsUnchanged

\* C11: a decode operation that fails (tag mismatch in decrypt or verify, no
\* matching key, unrecognized transformation kind, auth-only payload) leaves
\* the registry exactly as it was before the call: keys,
\* participant_to_entity, encrypt_options and every sessions entry are
\* unchanged and no entry is added.
C11_FailedDecodeLeavesRegistry ==
  (ret.op \in DecodeOps /\ ~ret.ok) => RegistryUnchanged

\* what encrypt_options_[h] gives: the recorded options, or the options of a
\* handle none were recorded for
OptionsOf(g, h) == IF Has(g.opts, h) THEN g.opts[h] ELSE DefaultEncryptOpts

\* a key of the sender, as the registry held it before the call, that matches
\* the header of the buffer and only authenticates
MatchesAuthOnlyKey ==
  /\ Has(ret.prev.keys, ret.sending)
  /\ \E i \in 1..Len(ret.prev.keys[ret.sending]) :
       /\ matches(ret.prev.keys[ret.sending][i], HeaderIn(ret.encoded))
       /\ authenticates(ret.prev.keys[ret.sending][i])

\* the buffer is the output of encode_serialized_payload under a GMAC key
GmacPayload ==
  /\ ret.sent.op = "encode_serialized_payload"
  /\ ret.sent.protected
  /\ ~ret.sent.out.encrypted

\* C21: decode_serialized_payload for a sending writer handle returns the
\* input unchanged exactly when the encrypt options of that handle have
\* payload_ false; otherwise, when the header matches a key of the sender
\* that only authenticates, it fails with code -3 minor 3, and it accepts no
\* buffer encode_serialized_payload produced with a GMAC key.
C21_PayloadDecode ==
  ( ret.op = "decode_serialized_payload" /\ ret.sending # HANDLE_NIL ) =>
    /\ (ret.ok /\ ret.out = ret.encoded) <=> ~OptionsOf(ret.prev, ret.sending).payload_
    /\ ( OptionsOf(ret.prev, ret.sending).payload_ /\ MatchesAuthOnlyKey ) =>
         /\ ~ret.ok
         /\ ret.ex.code = -3
         /\ ret.ex.minor_code = 3
    /\ ( OptionsOf(ret.prev, ret.sending).payload_ /\ GmacPayload ) => ~ret.ok

\* the sender's options have payload_ false and the buffer came back as it was
C21_Witness ==
  /\ ret.op = "decode_serialized_payload"
  /\ ret.sending = The("remote datawriter")
  /\ ~OptionsOf(ret.prev, ret.sending).payload_
  /\ ret.ok
  /\ ret.out = ret.encoded

\* a GMAC payload of the peer's writer, its key delivered, was refused
C21_WitnessAuthOnly ==
  /\ ret.op = "decode_serialized_payload"
  /\ ret.sending = The("remote datawriter")
  /\ ret.tamper = "none"
  /\ GmacPayload
  /\ MatchesAuthOnlyKey
  /\ ret.ex.code = -3
  /\ ret.ex.minor_code = 3

\* C22: encode_rtps_message succeeds, with the output equal to the input and
\* the index one greater, when the list is not empty and the index selects a
\* non-nil handle of it; with a nil sending handle, an empty list, an index
\* out of range or a nil selected handle it fails with code -1 and the index
\* as it was.  decode_rtps_message with non-nil handles returns the input.
\* Neither changes the registry, and neither result depends on it.
C22_RtpsMessage ==
  /\ ret.op = "encode_rtps_message" =>
       /\ Registry = ret.prev
       /\ IF /\ ret.sending # HANDLE_NIL
             /\ Len(ret.list) # 0
             /\ ret.index \in 0..(Len(ret.list) - 1)
             /\ ret.list[ret.index + 1] # HANDLE_NIL
          THEN /\ ret.r.ok
               /\ ret.r.out = ret.plain
               /\ ret.r.index = ret.index + 1
          ELSE /\ ~ret.r.ok
               /\ ret.r.ex.code = -1
               /\ ret.r.index = ret.index
  /\ ret.op = "decode_rtps_message" =>
       /\ Registry = ret.prev
       /\ ( ret.receiving # HANDLE_NIL /\ ret.sending # HANDLE_NIL ) =>
            ret.r.ok /\ ret.r.out = ret.encoded

\* the second handle of a list whose first is nil was selected, after tokens
\* of the peer had been stored
C22_Witness ==
  /\ ret.op = "encode_rtps_message"
  /\ Len(ret.list) = 2
  /\ ret.list[1] = HANDLE_NIL
  /\ ret.index = 1
  /\ ret.r.ok
  /\ ret.r.index = 2
  /\ Has(keys_, The("remote datawriter"))

C22_WitnessDecode ==
  /\ ret.op = "decode_rtps_message"
  /\ ret.r.ok
  /\ ret.r.out = ret.encoded

\* the call rejected a key whose kind neither encrypts nor authenticates
KindRejected == ~ret.ok /\ ret.ex.message = "Key transform kind unrecognized"

\* the error the claim gives an operation that rejects a kind
KindError(op) ==
  /\ ret.ex.minor_code = 2
  /\ ret.ex.code = IF op \in { "encode_serialized_payload", "decode_serialized_payload" }
                   THEN -3 ELSE -2

\* C23: an encode operation that rejects a key because its transformation
\* kind is neither a GCM nor a GMAC kind reports minor code 2, with code -2
\* from a submessage operation and -3 from a payload operation.
C23_EncodeKindError ==
  ( ret.op \in EncodeOps /\ KindRejected ) => KindError(ret.op)

\* C23, of the decode operations: the same.
C23_DecodeKindError ==
  ( ret.op \in DecodeOps /\ KindRejected ) => KindError(ret.op)

\* a submessage decode rejected the placeholder's kind
C23_DecodeSubmessageRejected ==
  ret.op = "decode_datawriter_submessage" /\ KindRejected

\* the key list of handle h differs from what it was, or is new
KeysSetFor(h) == Has(keys_', h) /\ (~Has(keys_, h) \/ keys_'[h] # keys_[h])

\* C24: the handle R register_matched_remote_participant returns has no keys
\* entry, and none appears or changes under R but by a
\* set_remote_participant_crypto_tokens call for R; after that call keys[R]
\* is tokens_to_keys of the delivered tokens, in token order, whatever was
\* stored under R before.
C24_ParticipantKeysFromTokens ==
  [][ /\ ( ret'.op = "register_matched_remote_participant" /\ ret'.handle # HANDLE_NIL ) =>
           ~Has(keys_', ret'.handle)
      /\ \A R \in { h \in DOMAIN issuedAs' : issuedAs'[h] = "remote participant" } :
           KeysSetFor(R) =>
             /\ ret'.op = "set_remote_participant_crypto_tokens"
             /\ ret'.handle = R
      /\ ( ret'.op = "set_remote_participant_crypto_tokens" /\ ret'.handle # HANDLE_NIL ) =>
           /\ Has(keys_', ret'.handle)
           /\ keys_'[ret'.handle] = tokens_to_keys(ret'.tokens)
           /\ \A h \in DOMAIN keys_' : h # ret'.handle => Has(keys_, h) /\ keys_'[h] = keys_[h]
    ]_vars

\* tokens of two keys replaced the one key stored under a remote participant
\* matched by a call of this run
C24_Witness ==
  /\ ret.op = "set_remote_participant_crypto_tokens"
  /\ ret.handle # HANDLE_NIL
  /\ ret.handle # The("remote participant")
  /\ Has(ret.prev.keys, ret.handle)
  /\ Len(ret.prev.keys[ret.handle]) = 1
  /\ Len(keys_[ret.handle]) = 2
  /\ keys_[ret.handle][1].sender_key_id = << 2, 0, 0, 0 >>
  /\ keys_[ret.handle][2] = ret.prev.keys[ret.handle][1]

\* C25: register_local_datareader stores at most one key under the handle it
\* returns: the placeholder for a volatile reader, one submessage key when
\* is_submessage_protected, and no key otherwise, whatever
\* is_payload_protected is.
C25_ReaderAtMostOneKey ==
  ( ret.op = "register_local_datareader" /\ ret.handle # HANDLE_NIL ) =>
    LET ks == keys_[ret.handle]
    IN  /\ Len(ks) <= 1
        /\ IF NamesVolatileEndpoint(ret.args.properties) THEN ks = << Placeholder >>
           ELSE IF ret.args.attrs.is_submessage_protected
           THEN /\ Len(ks) = 1
                /\ ks[1].sender_key_id = [ i \in 1..4 |-> (ret.handle \div (256 ^ (i - 1))) % 256 ]
                /\ ks[1].transformation_kind =
                     KindFor(ret.args.attrs.plugin_endpoint_attributes,
                             FLAG_IS_SUBMESSAGE_ENCRYPTED)
           ELSE ks = << >>

\* a reader with payload protection and without submessage protection holds
\* no key
C25_Witness ==
  /\ ret.op = "register_local_datareader"
  /\ ret.handle # HANDLE_NIL
  /\ ret.args.attrs.is_payload_protected
  /\ ~ret.args.attrs.is_submessage_protected
  /\ ~NamesVolatileEndpoint(ret.args.properties)
  /\ keys_[ret.handle] = << >>

\* a reader with both protections holds one key
C25_WitnessBoth ==
  /\ ret.op = "register_local_datareader"
  /\ ret.handle # HANDLE_NIL
  /\ ret.args.attrs.is_payload_protected
  /\ ret.args.attrs.is_submessage_protected
  /\ Len(keys_[ret.handle]) = 1

\* the session entries the encode operations of this instance's writer and
\* reader work on, in the registry g: that of the handle encode_submessage is
\* given, and those of the writer's payload key
EncodeSessions(g) ==
  { << EncodeHandle(g, The("local datawriter"), << The("remote datareader") >>), 0 >>,
    << EncodeHandle(g, The("local datareader"), << The("remote datawriter") >>), 0 >>,
    << The("local datawriter"), 0 >>, << The("local datawriter"), 1 >> }

\* the entry of sKey is what it was before the call, or absent as before
SessionKept(sKey) ==
  IF Has(ret.prev.sess, sKey)
  THEN Has(sessions_, sKey) /\ sessions_[sKey] = ret.prev.sess[sKey]
  ELSE ~Has(sessions_, sKey)

LookupOps == { "preprocess_secure_submsg" }

\* C26: no decode operation and no lookup changes the id, the iv suffix, the
\* counter or the key of a session entry an encode operation of this
\* instance works on, the entries under the handle of a matched remote
\* volatile endpoint included.
C26_DecodeKeepsEncodeSessions ==
  ret.op \in DecodeOps \cup LookupOps =>
    \A sKey \in EncodeSessions(ret.prev) : SessionKept(sKey)

\* C26, of the instances without volatile endpoints: the same.
C26_DecodeKeepsOwnSessions ==
  ( /\ ret.op \in DecodeOps \cup LookupOps
    /\ \A h \in DOMAIN ret.prev.keys : \A i \in 1..Len(ret.prev.keys[h]) :
         ~is_volatile_placeholder(ret.prev.keys[h][i]) ) =>
    \A sKey \in EncodeSessions(ret.prev) : SessionKept(sKey)

\* a decode changed the id and the key of the session this instance's
\* volatile writer had created under the handle of the matched remote reader
C26_SessionOverwritten ==
  /\ ret.op = "decode_datareader_submessage"
  /\ ret.ok
  /\ ret.sending = The("remote datareader")
  /\ Has(ret.prev.sess, << ret.sending, 0 >>)
  /\ ret.prev.sess[<< ret.sending, 0 >>].id_ \in OwnRandIds
  /\ sessions_[<< ret.sending, 0 >>].id_ \in RegRandIds
  /\ sessions_[<< ret.sending, 0 >>].iv_suffix_ = ret.prev.sess[<< ret.sending, 0 >>].iv_suffix_

\* the writer of the call was registered, and not unregistered, with
\* submessage protection
ProtectedWriterCalled ==
  /\ ret.op = "encode_datawriter_submessage"
  /\ ret.sending \in Of("local datawriter")
  /\ Has(ret.prev.keys, ret.sending)
  /\ Has(ret.prev.opts, ret.sending)
  /\ ret.prev.opts[ret.sending].submessage_

\* C27: encode_datawriter_submessage for a registered local writer whose
\* submessage_ option is true, when it reports success, does not put out the
\* plaintext: the output is framed and protected with a GCM or GMAC key,
\* whatever the receiver list.
C27_ProtectedWriterNeverPlain ==
  ( ProtectedWriterCalled /\ ret.ok ) =>
    /\ ret.protected
    /\ ret.out # ret.plain
    /\ encrypts(ret.key) \/ authenticates(ret.key)

\* C27, of the writers that do not hold the volatile placeholder: the same.
C27_GeneratedKeyNeverPlain ==
  ( /\ ProtectedWriterCalled
    /\ ret.ok
    /\ \A i \in 1..Len(ret.prev.keys[ret.sending]) :
         ~is_volatile_placeholder(ret.prev.keys[ret.sending][i]) ) =>
    /\ ret.protected
    /\ ret.out # ret.plain
    /\ encrypts(ret.key) \/ authenticates(ret.key)

\* a < b, the octet sequences read as little-endian integers of one width
LessLE(a, b) ==
  \E i \in 1..Len(a) : a[i] < b[i] /\ \A j \in (i + 1)..Len(a) : a[j] = b[j]

\* the first part of C28: the first 1024 messages of the run carry the
\* session_id of message 1
C28_SameSessionId ==
  ( res.op = "encode" /\ res.n <= MAX_BLOCKS_PER_SESSION ) =>
    res.header.session_id = res.first

\* the second part: each of them after the first carries an iv_suffix greater
\* than that of the message before it
C28_IvSuffixRises ==
  ( res.op = "encode" /\ res.n \in 2..MAX_BLOCKS_PER_SESSION ) =>
    LessLE(res.prev.iv_suffix_, res.header.initialization_vector_suffix)

\* the third part: after message n the session's counter is n
C28_CounterCounts ==
  ( res.op = "encode" /\ res.n <= MAX_BLOCKS_PER_SESSION ) => sess.counter_ = res.n

\* C28: the n messages of a run of one-block messages from a fresh session,
\* n at most 1024, carry one session_id, each an iv_suffix strictly greater
\* (as a 64-bit little-endian integer) than the one before, and the
\* session's counter is n after message n.
C28_RunOfOneBlockMessages ==
  /\ C28_SameSessionId
  /\ C28_IvSuffixRises
  /\ C28_CounterCounts

\* three messages were encoded and the counter is 2
C28_CounterAfterThree ==
  res.op = "encode" /\ res.n = 3 /\ sess.counter_ = 2

\* the plaintext blocks of the messages of w encoded in session e
RECURSIVE BlocksIn(_, _)
BlocksIn(w, e) ==
  IF w = << >> THEN 0
  ELSE (IF Head(w).epoch = e THEN Blocks(Head(w).plain.len) ELSE 0) + BlocksIn(Tail(w), e)

\* the first message encoded in session e
FirstIn(e) == wire[CHOOSE i \in 1..Len(wire) : wire[i].epoch = e /\ \A j \in 1..(i - 1) : wire[j].epoch # e]

\* C29: whatever the sizes of the messages of a sequence of encodes, the
\* plaintext blocks of the messages encoded under one session_id number at
\* most 1024.
C29_BlocksPerSession ==
  \A i \in 1..Len(wire) : BlocksIn(wire, wire[i].epoch) <= MAX_BLOCKS_PER_SESSION

\* what the counter does bound: the blocks of the messages of a session after
\* its first
C29_BlocksAfterFirst ==
  \A i \in 1..Len(wire) :
    BlocksIn(wire, wire[i].epoch) - Blocks(FirstIn(wire[i].epoch).plain.len)
      <= MAX_BLOCKS_PER_SESSION

\* a message of two blocks and a message of 1024 blocks carry one session_id
C29_SessionOf1026Blocks ==
  /\ Len(wire) >= 2
  /\ wire[1].header.session_id = wire[2].header.session_id
  /\ Blocks(wire[1].plain.len) = 2
  /\ Blocks(wire[2].plain.len) = MAX_BLOCKS_PER_SESSION

----------------------------------------------------------------------------
(* Specification SpecLock: threads that call any operation of one instance.  *)
(* An operation is the sequence of its steps another thread can interleave   *)
(* with: "acquire" is ACE_Guard<ACE_Thread_Mutex> guard(mutex_), "release"   *)
(* is guard.release() or the guard's destructor at a return, and every other *)
(* step is a read or write of the member it names.  An operation has one     *)
(* sequence for each way through its branches; a return ahead of the first   *)
(* guard is the empty sequence.                                              *)

Members == { "next_handle_", "keys_", "participant_to_entity_", "encrypt_options_",
             "sessions_" }

\* the accesses of a scope that holds a guard from its first line to its end
Guarded(accesses) == << "acquire" >> \o accesses \o << "release" >>

\* generate_handle: increment_handle reads and writes next_handle_
GenerateHandleSteps == Guarded(<< "next_handle_", "next_handle_" >>)

\* clear_endpoint_data, which its callers run under their guard
ClearEndpointDataSteps ==
  << "keys_", "encrypt_options_", "participant_to_entity_", "sessions_" >>

\* a local endpoint stores its keys, its entity and its options
StoreSteps == Guarded(<< "keys_", "participant_to_entity_", "encrypt_options_" >>)

\* a matched remote endpoint: the count of the local handle, its keys, the
\* volatile key stored under the new handle, the entity, the options copied
MatchSteps ==
  { Guarded(<< "keys_" >>),
    Guarded(<< "keys_", "keys_" >>),
    Guarded(<< "keys_", "keys_", "keys_", "participant_to_entity_",
               "encrypt_options_", "encrypt_options_" >>),
    Guarded(<< "keys_", "keys_", "participant_to_entity_",
               "encrypt_options_", "encrypt_options_" >>) }

RegisterSteps(op) ==
  CASE op \in { "register_local_participant", "register_matched_remote_participant" } ->
         { << >>, GenerateHandleSteps }
    [] op = "register_local_datawriter" ->
         { << >>, GenerateHandleSteps \o StoreSteps,
           GenerateHandleSteps \o GenerateHandleSteps \o StoreSteps }
    [] op = "register_local_datareader" ->
         { << >>, GenerateHandleSteps \o StoreSteps }
    [] OTHER ->
         { << >> } \cup { GenerateHandleSteps \o m : m \in MatchSteps }

UnregisterSteps(op) ==
  IF op = "unregister_participant" THEN { << >> }
  ELSE { << >>, Guarded(ClearEndpointDataSteps) }

TokenSteps(op) ==
  IF op \in { "create_local_participant_crypto_tokens",
              "create_local_datawriter_crypto_tokens",
              "create_local_datareader_crypto_tokens" }
  THEN { << >>, Guarded(<< "keys_" >>), Guarded(<< "keys_", "keys_" >>) }
  ELSE { << >>, Guarded(<< "keys_" >>) }

\* encode_submessage with the guard of its first line left out
EncodeSubmessageSteps_Unguarded ==
  { << "keys_" >>, << "keys_", "keys_" >>, << "keys_", "keys_", "sessions_" >> }

\* encode_submessage: the count, the keys, the session of the key
EncodeSubmessageSteps ==
  { Guarded(<< "keys_" >>),
    Guarded(<< "keys_", "keys_" >>),
    Guarded(<< "keys_", "keys_", "sessions_" >>) }

\* encode_datawriter_submessage without guard.release() ahead of its call of
\* encode_submessage
EncodeSteps_KeepsGuard(op) ==
  CASE op = "encode_serialized_payload" ->
         { << >>,
           Guarded(<< "keys_" >>),
           Guarded(<< "keys_", "encrypt_options_" >>),
           Guarded(<< "keys_", "encrypt_options_", "keys_" >>),
           Guarded(<< "keys_", "encrypt_options_", "keys_", "sessions_" >>) }
    [] op = "encode_datawriter_submessage" ->
         { << >>, Guarded(<< "encrypt_options_" >>) }
         \cup { << "acquire" >> \o first \o s \o << "release" >> :
                  first \in { << "encrypt_options_" >>,
                              << "encrypt_options_", "keys_" >>,
                              << "encrypt_options_", "keys_", "keys_" >> },
                  s \in EncodeSubmessageSteps }
    [] op = "encode_datareader_submessage" ->
         { << >> }
         \cup { first \o s :
                  first \in { << >>, Guarded(<< "keys_" >>),
                              Guarded(<< "keys_", "keys_" >>) },
                  s \in EncodeSubmessageSteps }
    [] OTHER -> { << >> }

EncodeSteps(op) ==
  CASE op = "encode_serialized_payload" ->
         { << >>,
           Guarded(<< "keys_" >>),
           Guarded(<< "keys_", "encrypt_options_" >>),
           Guarded(<< "keys_", "encrypt_options_", "keys_" >>),
           Guarded(<< "keys_", "encrypt_options_", "keys_", "sessions_" >>) }
    [] op = "encode_datawriter_submessage" ->
         { << >>, Guarded(<< "encrypt_options_" >>) }
         \cup { Guarded(first) \o s :
                  first \in { << "encrypt_options_" >>,
                              << "encrypt_options_", "keys_" >>,
                              << "encrypt_options_", "keys_", "keys_" >> },
                  s \in EncodeSubmessageSteps }
    [] op = "encode_datareader_submessage" ->
         { << >> }
         \cup { first \o s :
                  first \in { << >>, Guarded(<< "keys_" >>),
                              Guarded(<< "keys_", "keys_" >>) },
                  s \in EncodeSubmessageSteps }
    [] OTHER -> { << >> }

\* decode_submessage: the keys of the sender, the session of the matching key
DecodeSubmessageSteps ==
  { Guarded(<< "keys_" >>), Guarded(<< "keys_", "sessions_" >>) }

DecodeSteps(op) ==
  CASE op = "preprocess_secure_submsg" ->
         { << >>,
           Guarded(<< "participant_to_entity_" >>),
           Guarded(<< "participant_to_entity_", "keys_" >>),
           Guarded(<< "participant_to_entity_", "keys_", "keys_" >>),
           Guarded(<< "participant_to_entity_", "keys_", "keys_", "keys_", "keys_" >>) }
    [] op \in { "decode_datawriter_submessage", "decode_datareader_submessage" } ->
         { << >> } \cup DecodeSubmessageSteps
    [] op = "decode_serialized_payload" ->
         { << >>,
           Guarded(<< "encrypt_options_" >>),
           Guarded(<< "encrypt_options_", "keys_" >>),
           Guarded(<< "encrypt_options_", "keys_", "sessions_" >>) }
    [] OTHER -> { << >> }

RegisterCalls ==
  { "register_local_participant", "register_matched_remote_participant",
    "register_local_datawriter", "register_matched_remote_datareader",
    "register_local_datareader", "register_matched_remote_datawriter" }

UnregisterCalls == { "unregister_participant", "unregister_datawriter", "unregister_datareader" }

TokenCalls ==
  { "create_local_participant_crypto_tokens", "set_remote_participant_crypto_tokens",
    "create_local_datawriter_crypto_tokens", "set_remote_datawriter_crypto_tokens",
    "create_local_datareader_crypto_tokens", "set_remote_datareader_crypto_tokens" }

EncodeCalls ==
  { "encode_serialized_payload", "encode_datawriter_submessage",
    "encode_datareader_submessage", "encode_rtps_message" }

DecodeCalls ==
  { "preprocess_secure_submsg", "decode_datawriter_submessage",
    "decode_datareader_submessage", "decode_serialized_payload", "decode_rtps_message" }

LockCalls == RegisterCalls \cup UnregisterCalls \cup TokenCalls \cup EncodeCalls \cup DecodeCalls

StepsOf(op) ==
  CASE op \in RegisterCalls   -> RegisterSteps(op)
    [] op \in UnregisterCalls -> UnregisterSteps(op)
    [] op \in TokenCalls      -> TokenSteps(op)
    [] op \in EncodeCalls     -> EncodeSteps(op)
    [] OTHER                -> DecodeSteps(op)

\* a thread's position in its call: the steps it has yet to take, and the
\* number of guards the call has released
NoSteps == [ steps |-> << >>, guards |-> 0 ]

\* the step a thread is at, "none" outside a call
StepAt(t) == IF pc[t] = "idle" THEN "none" ELSE Head(loc[t].steps)

\* the thread has taken its step
Stepped(t) ==
  IF Len(loc[t].steps) = 1
  THEN /\ pc' = [ pc EXCEPT ![t] = "idle" ]
       /\ loc' = [ loc EXCEPT ![t] = NoSteps ]
  ELSE /\ pc' = pc
       /\ loc' = [ loc EXCEPT ![t] =
                     [ steps  |-> Tail(@.steps),
                       guards |-> @.guards + (IF Head(@.steps) = "release" THEN 1 ELSE 0) ] ]

LockInit ==
  /\ RegIdle /\ EngIdle /\ CodecIdle /\ PairIdle
  /\ mutex_ = 0
  /\ pc = [ t \in Threads |-> "idle" ]
  /\ loc = [ t \in Threads |-> NoSteps ]
  /\ issued = << >>

\* a thread enters an operation; one that returns ahead of its first guard
\* has left it again
LockCall(t) ==
  /\ pc[t] = "idle"
  /\ \E op \in LockCalls : \E steps \in StepsOf(op) :
       IF steps = << >>
       THEN UNCHANGED <<pc, loc>>
       ELSE /\ pc' = [ pc EXCEPT ![t] = "call" ]
            /\ loc' = [ loc EXCEPT ![t] = [ steps |-> steps, guards |-> 0 ] ]
  /\ UNCHANGED <<regVars, engVars, mutex_, issued, codec, pairVars>>

\* ACE_Guard<ACE_Thread_Mutex> guard(mutex_) waits for the mutex and takes it
LockAcquire(t) ==
  /\ StepAt(t) = "acquire"
  /\ mutex_ = 0
  /\ mutex_' = t
  /\ Stepped(t)
  /\ UNCHANGED <<regVars, engVars, issued, codec, pairVars>>

\* a read or write of a member
LockAccess(t) ==
  /\ StepAt(t) \in Members
  /\ Stepped(t)
  /\ UNCHANGED <<regVars, engVars, mutex_, issued, codec, pairVars>>

\* guard.release(), or the guard's destructor at the return
LockRelease(t) ==
  /\ StepAt(t) = "release"
  /\ mutex_' = 0
  /\ Stepped(t)
  /\ UNCHANGED <<regVars, engVars, issued, codec, pairVars>>

LockNext ==
  \E t \in Threads :
    \/ LockCall(t)
    \/ LockAcquire(t)
    \/ LockAccess(t)
    \/ LockRelease(t)

SpecLock == LockInit /\ [][LockNext]_vars

\* C30: a thread that is at a read or write of keys_, participant_to_entity_,
\* encrypt_options_, sessions_ or next_handle_, in any register, unregister,
\* token, encode, decode or preprocess operation, holds the registry mutex,
\* and no two threads are at such a read or write at the same time.
C30_AccessUnderMutex ==
  /\ \A t \in DOMAIN pc : StepAt(t) \in Members => mutex_ = t
  /\ \A t, u \in DOMAIN pc :
       StepAt(t) \in Members /\ StepAt(u) \in Members => t = u

\* a thread is at the session of its key while another, between the guard
\* its encode operation released and the one encode_submessage takes, waits
\* for the mutex
C30_Witness ==
  \E t, u \in DOMAIN pc :
    /\ t # u
    /\ StepAt(t) = "sessions_"
    /\ mutex_ = t
    /\ StepAt(u) = "acquire"
    /\ loc[u].guards = 1
    /\ loc[u].steps \in EncodeSubmessageSteps

\* the threads are scheduled fairly: a thread that can take a step takes it,
\* and a thread that waits for the mutex gets it when it is free again and
\* again
LockFairness ==
  \A t \in Threads :
    /\ WF_vars(LockAccess(t))
    /\ WF_vars(LockRelease(t))
    /\ SF_vars(LockAcquire(t))

SpecLockFair == LockInit /\ [][LockNext]_vars /\ LockFairness

\* the thread is between a guard's acquire and its release
InGuard(t) ==
  /\ pc[t] # "idle"
  /\ \E i \in 1..Len(loc[t].steps) :
       /\ loc[t].steps[i] = "release"
       /\ \A j \in 1..(i - 1) : loc[t].steps[j] # "acquire"

\* the first part of C31: no thread is at the acquire of a guard while it
\* holds the mutex (generate_handle and encode_submessage are entered with the
\* mutex released), and a thread holds the mutex exactly while it is inside a
\* guarded scope, so that a thread that has returned, on any path, holds
\* nothing
C31_NoSelfAcquire ==
  /\ \A t \in DOMAIN pc : StepAt(t) = "acquire" => mutex_ # t
  /\ \A t \in DOMAIN pc : (mutex_ = t) <=> InGuard(t)

\* the second part: every call a thread has entered returns
C31_EveryCallReturns ==
  \A t \in Threads : (pc[t] = "call") ~> (pc[t] = "idle")

\* C31: no operation acquires the mutex while its thread holds it, every
\* operation has released the mutex when it returns, on every path, and under
\* fair scheduling every one of the concurrent operations terminates.
C31_OperationsTerminate == []C31_NoSelfAcquire /\ C31_EveryCallReturns

\* a thread waits for the mutex inside register_matched_remote_datareader,
\* after its generate_handle has returned, while another holds the mutex
C31_Witness ==
  \E t, u \in DOMAIN pc :
    /\ t # u
    /\ InGuard(t)
    /\ StepAt(u) = "acquire"
    /\ loc[u].guards = 1
    /\ loc[u].steps \in MatchSteps

----------------------------------------------------------------------------
(* Specification SpecEncode: threads that encode under one (handle, key     *)
(* index) of one instance, whose key is `master` and whose session is       *)
(* `sess`.  The submessage operations first read the options in a guarded   *)
(* scope of their own; then every operation takes the guard, runs           *)
(* encauth_setup on the session, emits the message under the header         *)
(* encauth_setup filled, and returns.                                       *)

EncodeCalls3 ==
  { "encode_serialized_payload", "encode_datawriter_submessage",
    "encode_datareader_submessage" }

NoEncode == [ op |-> "none", plain |-> NoData, st |-> << >> ]

\* the keys of the handle: one that encrypts and one that authenticates
EncodeMasters ==
  { m \in SessionMasters :
      AlgOf(m) \in { CRYPTO_TRANSFORMATION_KIND_AES256_GCM,
                     CRYPTO_TRANSFORMATION_KIND_AES256_GMAC } }

\* the threads inside a call
Encoding == { t \in DOMAIN pc : pc[t] # "idle" }

EncodeInit ==
  /\ master \in EncodeMasters
  /\ sess = NewSession
  /\ rsess = NewSession
  /\ wire = << >>
  /\ res = [ op |-> "init" ]
  /\ RegIdle /\ CodecIdle /\ PairIdle
  /\ mutex_ = 0
  /\ pc = [ t \in Threads |-> "idle" ]
  /\ loc = [ t \in Threads |-> NoEncode ]
  /\ issued = << >>

\* a thread enters an encode operation
EncCall(t) ==
  /\ pc[t] = "idle"
  /\ Len(wire) + Cardinality(Encoding) < MaxEncodes
  /\ \E op \in EncodeCalls3, p \in Plains :
       /\ loc' = [ loc EXCEPT ![t] = [ NoEncode EXCEPT !.op = op, !.plain = p ] ]
       /\ pc' = [ pc EXCEPT ![t] = IF op = "encode_serialized_payload"
                                    THEN "lock" ELSE "lock1" ]
  /\ UNCHANGED <<regVars, engVars, mutex_, issued, codec, pairVars>>

\* ACE_Guard<ACE_Thread_Mutex> guard(mutex_)
EncAcquire(t) ==
  /\ pc[t] \in { "lock1", "lock" }
  /\ mutex_ = 0
  /\ mutex_' = t
  /\ pc' = [ pc EXCEPT ![t] = IF pc[t] = "lock1" THEN "options" ELSE "setup" ]
  /\ UNCHANGED <<regVars, engVars, loc, issued, codec, pairVars>>

\* the submessage operations read the options and the keys of the handle
EncOptions(t) ==
  /\ pc[t] = "options"
  /\ pc' = [ pc EXCEPT ![t] = "unlock1" ]
  /\ UNCHANGED <<regVars, engVars, mutex_, loc, issued, codec, pairVars>>

\* encauth_setup: the session is created, rotated or advanced and the header
\* is filled from it
EncSetup(t) ==
  /\ pc[t] = "setup"
  /\ \E rid \in DrawnIds(sess, loc[t].plain), riv \in DrawnIvs(sess, loc[t].plain) :
       LET st == encauth_setup(master, sess, loc[t].plain, rid, riv)
       IN  /\ sess' = st.sess
           /\ loc' = [ loc EXCEPT ![t].st = st ]
  /\ pc' = [ pc EXCEPT ![t] = "emit" ]
  /\ UNCHANGED <<regVars, master, rsess, wire, res, mutex_, issued, codec, pairVars>>

\* encrypt or authtag writes the message under the header of its setup
EncEmit(t) ==
  /\ pc[t] = "emit"
  /\ LET r == IF encrypts(master) THEN EncryptWith(loc[t].st, loc[t].plain)
                                  ELSE AuthtagWith(loc[t].st, loc[t].plain)
     IN  /\ wire' = Append(wire, [ header |-> r.header, body |-> r.out, footer |-> r.footer,
                                   plain |-> loc[t].plain, by |-> t ])
         /\ res' = [ op |-> loc[t].op, ok |-> r.ok, header |-> r.header,
                     plain |-> loc[t].plain ]
  /\ pc' = [ pc EXCEPT ![t] = "unlock" ]
  /\ UNCHANGED <<regVars, master, sess, rsess, mutex_, loc, issued, codec, pairVars>>

\* guard.release(), or the guard's destructor at the return
EncRelease(t) ==
  /\ pc[t] \in { "unlock1", "unlock" }
  /\ mutex_' = 0
  /\ pc' = [ pc EXCEPT ![t] = IF pc[t] = "unlock1" THEN "lock" ELSE "idle" ]
  /\ loc' = [ loc EXCEPT ![t] = IF pc[t] = "unlock1" THEN @ ELSE NoEncode ]
  /\ UNCHANGED <<regVars, engVars, issued, codec, pairVars>>

EncodeNext ==
  \E t \in Threads :
    \/ EncCall(t)
    \/ EncAcquire(t)
    \/ EncOptions(t)
    \/ EncSetup(t)
    \/ EncEmit(t)
    \/ EncRelease(t)

SpecEncode == EncodeInit /\ [][EncodeNext]_vars

\* the first part of C32: no two messages carry the same session_id and
\* iv_suffix
C32_PairsDistinct ==
  \A i, j \in 1..Len(wire) :
    i # j => \/ wire[i].header.session_id # wire[j].header.session_id
             \/ wire[i].header.initialization_vector_suffix #
                  wire[j].header.initialization_vector_suffix

\* the second part: the header a call emits is the one its own setup filled,
\* and the session is as that setup left it until the call's guard is released
C32_SetupToEmitAtomic ==
  \A t \in DOMAIN pc :
    pc[t] \in { "emit", "unlock" } =>
      /\ sess = loc[t].st.sess
      /\ pc[t] = "unlock" => wire[Len(wire)].header = loc[t].st.header

\* C32: for any interleaving of concurrent encode_serialized_payload,
\* encode_datawriter_submessage and encode_datareader_submessage calls on one
\* (handle, key index), no two calls emit the same (session_id, iv_suffix),
\* each call's session advance and header are atomic with respect to the
\* other calls, and after two calls by two threads under one session_id the
\* counter is the number of blocks of both messages.
C32_ConcurrentEncodes ==
  /\ C32_PairsDistinct
  /\ C32_SetupToEmitAtomic
  /\ ( /\ Encoding = {}
       /\ Len(wire) = 2
       /\ wire[1].by # wire[2].by
       /\ wire[1].header.session_id = wire[2].header.session_id )
     => sess.counter_ = Blocks(wire[1].plain.len) + Blocks(wire[2].plain.len)

\* two threads have each encoded a message of two blocks from a fresh session
\* and the counter is 2
C32_CounterMissesFirst ==
  /\ Encoding = {}
  /\ Len(wire) = 2
  /\ wire[1].by # wire[2].by
  /\ wire[1].header.session_id = wire[2].header.session_id
  /\ Blocks(wire[1].plain.len) = 2
  /\ Blocks(wire[2].plain.len) = 2
  /\ sess.counter_ = 2

----------------------------------------------------------------------------
(* Specification SpecSubmsg: an instance with its six registrations encodes *)
(* writer and reader submessages for no receiver, for its one matched       *)
(* receiver and for a list of two, and unregisters its matched endpoints.   *)

\* the receiver lists of a submessage encode call
SubmsgLists(h) == { << >>, << h >>, << h, h >> }

\* a submessage encode call with the receiver list returned r
SubmsgEncoded(op, sending, list, plain, r) ==
  /\ SessionsBounded(r.g)
  /\ PairCalled(r, [ op |-> op, sending |-> sending, list |-> list, plain |-> plain,
                     ok |-> r.ok, ex |-> r.ex, protected |-> r.protected, out |-> r.out,
                     handle |-> r.handle, key_idx |-> r.key_idx, prev |-> Registry ])
  /\ UNCHANGED pairVars

SubmsgFromWriter ==
  \E plain \in RegSubmessages, list \in SubmsgLists(The("remote datareader")),
     rid \in OwnRandIds, riv \in RegRandIvs :
    SubmsgEncoded("encode_datawriter_submessage", The("local datawriter"), list, plain,
                  encode_datawriter_submessage(Registry, plain, The("local datawriter"),
                                               list, 0, rid, riv))

SubmsgFromReader ==
  \E plain \in RegSubmessages, list \in SubmsgLists(The("remote datawriter")),
     rid \in OwnRandIds, riv \in RegRandIvs :
    SubmsgEncoded("encode_datareader_submessage", The("local datareader"), list, plain,
                  encode_datareader_submessage(Registry, plain, The("local datareader"),
                                               list, rid, riv))

SubmsgUnregisterRemote ==
  /\ \/ PairCalled(unregister_datareader(Registry, The("remote datareader")),
                   [ op |-> "unregister_datareader", handle |-> The("remote datareader"),
                     prev |-> Registry ])
     \/ PairCalled(unregister_datawriter(Registry, The("remote datawriter")),
                   [ op |-> "unregister_datawriter", handle |-> The("remote datawriter"),
                     prev |-> Registry ])
  /\ UNCHANGED pairVars

SubmsgNext == SubmsgFromWriter \/ SubmsgFromReader \/ SubmsgUnregisterRemote

SpecSubmsg == PairInit /\ [][SubmsgNext]_vars

SubmsgOps == { "encode_datawriter_submessage", "encode_datareader_submessage" }

\* the key list of h is exactly the volatile placeholder
HoldsPlaceholder(g, h) ==
  /\ Has(g.keys, h)
  /\ Len(g.keys[h]) = 1
  /\ is_volatile_placeholder(g.keys[h][1])

\* the handle C33 names for a call: the single receiver when the sender holds
\* the placeholder, the sender in every other case
NamedHandle(call) ==
  IF Len(call.list) = 1 /\ HoldsPlaceholder(call.prev, call.sending)
  THEN call.list[1] ELSE call.sending

\* the sessions other than sKey are as they were before the call
OtherSessionsKept(sKey) ==
  /\ (DOMAIN sessions_) \ {sKey} = (DOMAIN ret.prev.sess) \ {sKey}
  /\ \A k \in (DOMAIN sessions_) \ {sKey} : sessions_[k] = ret.prev.sess[k]

C33_WitnessReader ==
  /\ ret.op = "encode_datareader_submessage"
  /\ ret.ok /\ ret.protected
  /\ Len(ret.list) = 1
  /\ HoldsPlaceholder(ret.prev, ret.sending)
  /\ ret.handle = ret.list[1]

\* a writer that holds a generated key has encoded for its single receiver
\* under its own key and session
C33_WitnessOwnKey ==
  /\ ret.op = "encode_datawriter_submessage"
  /\ ret.ok /\ ret.protected
  /\ Len(ret.list) = 1
  /\ ~HoldsPlaceholder(ret.prev, ret.sending)
  /\ ret.handle = ret.sending

\* the writer the call is for was registered with both protections
WriterWithBoth(call) ==
  /\ Has(call.prev.opts, call.sending)
  /\ call.prev.opts[call.sending].submessage_
  /\ call.prev.opts[call.sending].payload_

\* the call protected with key index i of its sending writer, and read and
\* wrote only session (H, i)
ProtectedUnder(i) ==
  /\ ret.handle = ret.sending
  /\ ret.key_idx = i
  /\ matches(ret.prev.keys[ret.sending][i + 1], ret.out.header)
  /\ sessions_[<< ret.sending, i >>].key_ =
       derive_key(ret.prev.keys[ret.sending][i + 1], ret.out.header.session_id)
  /\ OtherSessionsKept(<< ret.sending, i >>)

WriterEncodeProtected(op) == ret.op = op /\ ret.ok /\ ret.protected

\* C34 as stated: for a local writer H registered with both submessage and
\* payload protection, encode_serialized_payload protects with keys[H][1] and
\* session (H, 1) and submessage encoding with keys[H][0] and session (H, 0);
\* for a writer with a single key payload encoding uses index 0; neither
\* changes a session of the other index.
C34_KeyIndexPerOperation ==
  /\ (WriterEncodeProtected("encode_serialized_payload") /\ WriterWithBoth(ret)
        /\ Len(ret.prev.keys[ret.sending]) >= 2) => ProtectedUnder(1)
  /\ (WriterEncodeProtected("encode_datawriter_submessage") /\ WriterWithBoth(ret))
        => ProtectedUnder(0)
  /\ (WriterEncodeProtected("encode_serialized_payload")
        /\ Len(ret.prev.keys[ret.sending]) = 1) => ProtectedUnder(0)

\* C34: the same, for a writer H whose key list is not the volatile
\* placeholder.
C34_KeyIndexPerOperationOwnKeys ==
  ( /\ ret.op \in { "encode_serialized_payload", "encode_datawriter_submessage" }
    /\ ~HoldsPlaceholder(ret.prev, ret.sending) ) =>
    /\ (WriterEncodeProtected("encode_serialized_payload") /\ WriterWithBoth(ret)
          /\ Len(ret.prev.keys[ret.sending]) >= 2) => ProtectedUnder(1)
    /\ (WriterEncodeProtected("encode_datawriter_submessage") /\ WriterWithBoth(ret))
          => ProtectedUnder(0)
    /\ (WriterEncodeProtected("encode_serialized_payload")
          /\ Len(ret.prev.keys[ret.sending]) = 1) => ProtectedUnder(0)

\* a writer with two keys has encoded a payload under session (H, 1) while
\* its session (H, 0) exists
C34_Witness ==
  /\ WriterEncodeProtected("encode_serialized_payload")
  /\ WriterWithBoth(ret)
  /\ ret.key_idx = 1
  /\ Has(ret.prev.sess, << ret.sending, 0 >>)
  /\ sessions_[<< ret.sending, 0 >>] = ret.prev.sess[<< ret.sending, 0 >>]

\* such a writer has encoded a submessage under session (H, 0) while its
\* session (H, 1) exists
C34_WitnessSubmessage ==
  /\ WriterEncodeProtected("encode_datawriter_submessage")
  /\ WriterWithBoth(ret)
  /\ ret.key_idx = 0
  /\ ret.handle = ret.sending
  /\ Has(ret.prev.sess, << ret.sending, 1 >>)

\* a writer with a single key has encoded a payload under session (H, 0)
C34_WitnessSingleKey ==
  /\ WriterEncodeProtected("encode_serialized_payload")
  /\ Len(ret.prev.keys[ret.sending]) = 1
  /\ ret.key_idx = 0

\* the receiver's decrypt or verify has called get_key on its session
GetKeyCalled == res.op \in { "decrypt", "verify" }

\* the cached key answers for the header
CachedFor(s, header) == s.key_ # << >> /\ s.id_ = header.session_id

\* C35: get_key(master, header) changes nothing of the session when the
\* cached key is not empty and the cached id equals header.session_id;
\* otherwise it sets id to header.session_id and replaces the key by the key
\* derived from master for that id; in both cases iv_suffix and counter are
\* unchanged.
C35_GetKey ==
  GetKeyCalled =>
    LET header == wire[res.msg].header
    IN  /\ rsess.iv_suffix_ = res.prev.iv_suffix_
        /\ rsess.counter_ = res.prev.counter_
        /\ IF CachedFor(res.prev, header)
           THEN rsess = res.prev
           ELSE /\ rsess.id_ = header.session_id
                /\ rsess.key_ = derive_key(master, header.session_id)

\* the receiver decoded a message of another session than the one it had the
\* key of: the id and the key were replaced
C35_Witness ==
  /\ GetKeyCalled
  /\ res.prev.key_ # << >>
  /\ res.prev.id_ # wire[res.msg].header.session_id
  /\ rsess.id_ = wire[res.msg].header.session_id
  /\ rsess.key_ # res.prev.key_

\* the receiver decoded a message of the session it had the key of
C35_WitnessCached ==
  /\ GetKeyCalled
  /\ CachedFor(res.prev, wire[res.msg].header)
  /\ rsess = res.prev

\* C35, of a session an encode of the same instance has advanced: a decode
\* under that session leaves its iv_suffix and counter as the encode left
\* them.
C35_SharedSessionKeepsIv ==
  (ret.op \in DecodeOps /\ \E sKey \in DOMAIN sessions_ : ~SessionKept(sKey)) =>
    \A sKey \in DOMAIN ret.prev.sess :
      /\ Has(sessions_, sKey)
      /\ sessions_[sKey].iv_suffix_ = ret.prev.sess[sKey].iv_suffix_
      /\ sessions_[sKey].counter_ = ret.prev.sess[sKey].counter_

\* the session under sKey holds the key derived, for its current id, from the
\* key at its index in the list of its handle
DerivedFromListedKey(sKey) ==
  /\ Has(keys_, sKey[1])
  /\ Len(keys_[sKey[1]]) > sKey[2]
  /\ sessions_[sKey].key_ = derive_key(keys_[sKey[1]][sKey[2] + 1], sessions_[sKey].id_)

\* C36: in every reachable state every sessions entry (h, i) with a key that
\* is not empty has an element at index i of keys[h], and its key is the one
\* derived from that element's master_sender_key and master_salt and the
\* session's current id, also after set_remote_*_crypto_tokens has replaced
\* the key list of h.
C36_SessionKeysDerived ==
  \A sKey \in DOMAIN sessions_ :
    sessions_[sKey].key_ # << >> => DerivedFromListedKey(sKey)

\* the entries of participant_to_entity_, by position
Entries == 1..Len(participant_to_entity_)

\* the transform identifiers of the keys of the entity at position n
TransformIdsAt(n) ==
  LET h == participant_to_entity_[n].entity.handle_
  IN  IF Has(keys_, h)
      THEN { <<keys_[h][i].transformation_kind, keys_[h][i].sender_key_id>> :
               i \in 1..Len(keys_[h]) }
      ELSE {}

\* C37: in every reachable registry state at most one entity registered under
\* a participant holds a key matching a given transform identifier
\* (transformation_kind, sender_key_id), matched remote volatile readers and
\* writers included, so what preprocess_secure_submsg returns does not depend
\* on the order of registration.
C37_OneEntityPerTransformId ==
  \A m, n \in Entries :
    /\ m # n
    /\ participant_to_entity_[m].participant = participant_to_entity_[n].participant
    => TransformIdsAt(m) \cap TransformIdsAt(n) = {}

\* the two entities C37 fails on are a matched remote reader and a matched
\* remote writer of one participant
C37_SharedByRemoteVolatilePair ==
  \E m, n \in Entries :
    /\ participant_to_entity_[m].participant = participant_to_entity_[n].participant
    /\ participant_to_entity_[m].entity.category_ = DATAREADER_SUBMESSAGE
    /\ participant_to_entity_[n].entity.category_ = DATAWRITER_SUBMESSAGE
    /\ TransformIdsAt(m) \cap TransformIdsAt(n) # {}
    /\ issuedAs[participant_to_entity_[m].entity.handle_] = "remote datareader"
    /\ issuedAs[participant_to_entity_[n].entity.handle_] = "remote datawriter"

\* the operations of Spec that C38 says add no entry to either map
NonRegisteringOps ==
  { "encode_serialized_payload", "encode_datawriter_submessage",
    "encode_datareader_submessage" }

\* C38: keys and encrypt_options gain or lose entries only in register_*,
\* unregister_* and set_remote_*_crypto_tokens: an encode call, also one with
\* a handle that was never registered or was already unregistered, leaves
\* both maps with the entries they had.
C38_EncodeKeepsMapDomains ==
  ret.op \in NonRegisteringOps =>
    /\ DOMAIN keys_ = DOMAIN ret.prev.keys
    /\ DOMAIN encrypt_options_ = DOMAIN ret.prev.opts

\* the part of C38 that holds of the encode operations: keys is left with
\* the entries it had
C38_EncodeKeepsKeysDomain ==
  ret.op \in NonRegisteringOps => DOMAIN keys_ = DOMAIN ret.prev.keys

----------------------------------------------------------------------------
(* Specification SpecLayout: one call of encode_submessage on a fresh        *)
(* session, followed down to the octets it serializes: the plain submessage *)
(* is its length, the flags octet and the two octets of submessageLength of *)
(* its header; the output is the position and the header of each submessage *)
(* the Serializer writes.  The lengths are the short ones and the ones      *)
(* around the largest value a 16-bit submessageLength holds.                *)

MaxPlainLen == 43

\* the values of an ACE_UINT16
UInt16Values == 65536

\* the octets of an RTPS submessage header
SubmessageHeaderSize == 4

\* what gen_find_size adds for a CryptoHeader (two identifiers of 4 octets, a
\* session id of 4 and an iv suffix of 8) and for a CryptoFooter (a mac of 16
\* octets and the length of an empty sequence)
CryptoHeaderSize == 20
CryptoFooterSize == 20

LayoutLengths ==
  (SubmessageHeaderSize..MaxPlainLen) \cup { UInt16Values + d : d \in (0 - 12)..8 }

\* the octets at index 2 and 3 of the plain submessage
LengthOctets == { << 0, 0 >>, << 36, 0 >>, << 0, 36 >> }

PlainSubmessages ==
  { [ len |-> n, flags |-> f, octets |-> o, body |-> << 0 >> ] :
      n \in LayoutLengths, f \in 0..3, o \in LengthOctets }

\* a 16-bit value from two octets in the byte order of flags bit 0
FromOctets(o, flags) ==
  IF flags % 2 = 1 THEN o[1] + 256 * o[2] ELSE 256 * o[1] + o[2]

\* ser_in >> smHdr_in.submessageLength, after swap_bytes
SubmessageLengthIn(plain) == FromOctets(plain.octets, plain.flags)

\* out = *pOut with out[2 + !(flags & 1)] = len & 0xff and
\* out[2 + (flags & 1)] = (len >> 8) & 0xff when submessageLength is 0; the
\* input is const.  A submessage has its header, so the unsigned len does
\* not wrap
PatchedCopy(plain) ==
  LET len == plain.len - SubmessageHeaderSize
      low == len % 256
      high == (len \div 256) % 256
  IN  IF SubmessageLengthIn(plain) = 0
      THEN [ input |-> plain,
             out |-> [ plain EXCEPT !.octets = IF plain.flags % 2 = 1 THEN << low, high >>
                                               ELSE << high, low >> ] ]
      ELSE [ input |-> plain, out |-> plain ]

\* Serializer::align_w
AlignUp(n, a) == IF n % a = 0 THEN n ELSE n + a - (n % a)

\* the sizes encode_submessage computes and the submessage headers it writes,
\* each at the position the Serializer has reached
Serialized(authOnly, outLen) ==
  LET size1 == SubmessageHeaderSize + CryptoHeaderSize
      hdrLen == (size1 - SubmessageHeaderSize) % UInt16Values
      contentAt == size1 + (IF authOnly THEN 0 ELSE 8)
      size2 == contentAt + outLen
      padding == IF size2 % 4 # 0 THEN 4 - (size2 % 4) ELSE 0
      size3 == size2 + SubmessageHeaderSize
      preFooter == size3 + padding
      size4 == size3 + CryptoFooterSize
      bodyLen0 == (4 + outLen) % UInt16Values
      bodyLen == IF outLen % 4 # 0 THEN (bodyLen0 + 4 - (outLen % 4)) % UInt16Values
                 ELSE bodyLen0
  IN  [ total |-> size4 + padding,
        prefix |-> [ submessageId |-> "SEC_PREFIX", at |-> 0, submessageLength |-> hdrLen ],
        body |-> IF authOnly THEN << >>
                 ELSE << [ submessageId |-> "SEC_BODY", at |-> size1,
                           submessageLength |-> bodyLen, length |-> outLen ] >>,
        contentAt |-> contentAt,
        postfix |-> [ submessageId |-> "SEC_POSTFIX", at |-> AlignUp(contentAt + outLen, 4),
                      submessageLength |-> (size4 + padding - preFooter) % UInt16Values ] ]

\* encode_submessage with the key m of a handle whose session is fresh
LayoutOf(m, plain, rid, riv) ==
  IF encrypts(m)
  THEN LET r == encrypt(m, NewSession, plain, rid, riv)
       IN  [ ok |-> TRUE, authOnly |-> FALSE, input |-> plain, content |-> r.out,
             sess |-> r.sess, footer |-> r.footer,
             layout |-> Serialized(FALSE, r.out.len) ]
  ELSE IF authenticates(m)
  THEN LET c == PatchedCopy(plain)
           r == authtag(m, NewSession, c.out, rid, riv)
       IN  [ ok |-> TRUE, authOnly |-> TRUE, input |-> c.input, content |-> c.out,
             sess |-> r.sess, footer |-> r.footer,
             layout |-> Serialized(TRUE, c.out.len) ]
  ELSE [ ok |-> FALSE ]

LayoutInit ==
  /\ RegIdle /\ EngIdle /\ ConcIdle /\ PairIdle
  /\ \E m \in EncodeMasters, plain \in PlainSubmessages :
       codec = [ op |-> "input", key |-> m, plain |-> plain ]

LayoutEncodeSubmessage ==
  /\ codec.op = "input"
  /\ \E rid \in RegRandIds, riv \in RegRandIvs :
       codec' = [ op |-> "encode_submessage", key |-> codec.key, plain |-> codec.plain,
                  r |-> LayoutOf(codec.key, codec.plain, rid, riv) ]
  /\ UNCHANGED <<regVars, engVars, concVars, pairVars>>

LayoutNext == LayoutEncodeSubmessage

SpecLayout == LayoutInit /\ [][LayoutNext]_vars

\* encode_submessage returned, in authentication-only mode
AuthOnlyEncoded == codec.op = "encode_submessage" /\ codec.r.ok /\ codec.r.authOnly

\* the call is one of a plain submessage whose submessageLength is zero
ZeroLengthEncoded == AuthOnlyEncoded /\ SubmessageLengthIn(codec.plain) = 0

\* the MAC is the tag over the emitted copy, nothing else in the copy differs
\* from the input, and the input is as the caller passed it
MacOverEmitted ==
  /\ codec.r.footer.common_mac
       = GcmTag(codec.r.sess.key_, SessionIv(codec.r.sess), codec.r.content, NoData)
  /\ [ codec.r.content EXCEPT !.octets = codec.plain.octets ] = codec.plain
  /\ codec.r.input = codec.plain

\* C39: authentication-only encoding of a plain submessage of L octets whose
\* submessageLength is zero emits a copy with that field patched to L - 4,
\* little-endian when flags bit 0 is 1 and big-endian when it is 0, and the
\* MAC is over the patched octets; a submessageLength that is not zero is
\* emitted unchanged; the caller's input buffer is never modified.
C39_PatchedToLengthLessHeader ==
  AuthOnlyEncoded =>
    /\ MacOverEmitted
    /\ IF SubmessageLengthIn(codec.plain) = 0
       THEN FromOctets(codec.r.content.octets, codec.plain.flags)
              = codec.plain.len - SubmessageHeaderSize
       ELSE codec.r.content = codec.plain

\* what holds of the code: the field is patched to the low 16 bits of L - 4
C39_PatchedToLow16Bits ==
  AuthOnlyEncoded =>
    /\ MacOverEmitted
    /\ IF SubmessageLengthIn(codec.plain) = 0
       THEN FromOctets(codec.r.content.octets, codec.plain.flags)
              = (codec.plain.len - SubmessageHeaderSize) % UInt16Values
       ELSE codec.r.content = codec.plain

\* a 40-octet submessage is patched to 36, in either byte order
C39_Patched36 ==
  /\ ZeroLengthEncoded
  /\ codec.plain.len = 40
  /\ codec.plain.flags % 2 = 1
  /\ codec.r.content.octets = << 36, 0 >>

C39_Patched36BigEndian ==
  /\ ZeroLengthEncoded
  /\ codec.plain.len = 40
  /\ codec.plain.flags % 2 = 0
  /\ codec.r.content.octets = << 0, 36 >>

\* a submessage of 65540 octets is emitted with submessageLength zero
C39_StillZero ==
  /\ ZeroLengthEncoded
  /\ codec.plain.len = UInt16Values + SubmessageHeaderSize
  /\ codec.r.content.octets = << 0, 0 >>

\* encode_submessage returned
LayoutEncoded == codec.op = "encode_submessage" /\ codec.r.ok

\* the length C of what is wrapped: the ciphertext, or the submessage itself
WrappedLen == codec.r.content.len

\* the layout of C40 in encrypt mode
EncryptLayout(l, C) ==
  /\ l.prefix.submessageLength = 20
  /\ Len(l.body) = 1
  /\ l.body[1].submessageLength = 4 + AlignUp(C, 4)
  /\ l.body[1].length = C
  /\ l.postfix.submessageLength = 20
  /\ l.total = 56 + AlignUp(C, 4)
  /\ l.postfix.at % 4 = 0

\* the layout of C40 in authentication-only mode
AuthOnlyLayout(l, L) ==
  /\ l.prefix.submessageLength = 20
  /\ l.body = << >>
  /\ l.postfix.submessageLength = 20
  /\ l.total = 48 + AlignUp(L, 4)
  /\ l.postfix.at % 4 = 0

\* C40: for every plain submessage length L the output of submessage
\* encoding is, in encrypt mode, SEC_PREFIX with submessageLength 20,
\* SEC_BODY with submessageLength 4 plus the ciphertext length C rounded up
\* to a multiple of 4 and a uint32 length field equal to C, then SEC_POSTFIX
\* with submessageLength 20, 56 + C rounded up to a multiple of 4 octets in
\* all; in authentication-only mode there is no SEC_BODY and the total is
\* 48 + L rounded up to a multiple of 4; in both modes the SEC_POSTFIX header
\* starts at a multiple of 4.
C40_SubmessageLayout ==
  LayoutEncoded =>
    IF codec.r.authOnly THEN AuthOnlyLayout(codec.r.layout, codec.plain.len)
    ELSE EncryptLayout(codec.r.layout, WrappedLen)

\* what holds of the code: the layout of C40 whenever 4 plus the rounded
\* ciphertext length is a value of the 16-bit submessageLength, and in
\* authentication-only mode for every length
C40_LayoutWithin16Bits ==
  LayoutEncoded =>
    IF codec.r.authOnly THEN AuthOnlyLayout(codec.r.layout, codec.plain.len)
    ELSE 4 + AlignUp(WrappedLen, 4) < UInt16Values
           => EncryptLayout(codec.r.layout, WrappedLen)

\* whatever the length, the sizes and positions are those of C40: only the
\* submessageLength of SEC_BODY is cut to 16 bits
C40_SizesAndPositions ==
  LayoutEncoded /\ ~codec.r.authOnly =>
    /\ codec.r.layout.total = 56 + AlignUp(WrappedLen, 4)
    /\ codec.r.layout.postfix.at = 32 + AlignUp(WrappedLen, 4)
    /\ codec.r.layout.body[1].length = WrappedLen
    /\ codec.r.layout.body[1].submessageLength = (4 + AlignUp(WrappedLen, 4)) % UInt16Values

\* a ciphertext of 65532 octets is wrapped in a SEC_BODY of submessageLength 0
C40_BodyLengthZero ==
  /\ LayoutEncoded /\ ~codec.r.authOnly
  /\ WrappedLen = UInt16Values - 4
  /\ codec.r.layout.body[1].submessageLength = 0

\* a 41-octet submessage is encrypted into 56 + 44 octets
C40_Encrypted41 ==
  /\ LayoutEncoded /\ ~codec.r.authOnly
  /\ codec.plain.len = 41
  /\ codec.r.layout.total = 100
  /\ codec.r.layout.body[1].submessageLength = 48

====
